---------------------------- MODULE Spec2Model ----------------------------
(***************************************************************************)
(* A model of har-mcp: the two-tier HAR parser (pkg/har), the index, query *)
(* and redaction layer built on the parsed archive, and the MCP server's   *)
(* session holding the current archive (cmd/har-mcp).                      *)
(*                                                                         *)
(* Strings are sequences of byte values (ASCII codes), so that case        *)
(* folding, base64 decoding, decimal formatting and scanning are computed  *)
(* as the code computes them.  JSON numbers are kept in thousandths.       *)
(***************************************************************************)
EXTENDS Integers, Sequences, FiniteSets, TLC

VARIABLES
    harData,    \* HARServer.harData: the current archive, or Nil
    alive,      \* FALSE once a handler has panicked (the process is gone)
    op,         \* the tool call handled last
    arg,        \* its argument (document, (url, method) or request ID)
    reply,      \* the tool result it returned
    decoders,   \* the decoders the last Parse ran, in order
    superseded, \* history: a load has replaced an archive by another one
    calls,      \* the tool calls in flight when calls are dispatched concurrently
    fn,         \* library function under test, for the pure-function checks
    fnArg,      \* its input
    fnRes       \* its output, or Pending before it ran

vars == <<harData, alive, op, arg, reply, decoders, superseded, calls, fn, fnArg, fnRes>>

\* A nil pointer: a record, so that it compares with the records pointed to.
Nil == [nil |-> TRUE]

\* fnRes before and after the function under test ran.
Pending == [done |-> FALSE]
Done(v) == [done |-> TRUE, val |-> v]

-----------------------------------------------------------------------------
(* Bounds of the model.                                                    *)

\* Longest header list handed to redactAuthHeaders in the pure-function check.
MaxHeaders == 2

\* Most entries in the documents that vary the requests of their entries.
MaxEntries == 2

\* Largest magnitude, in thousandths, of the JSON numbers drawn for the
\* time-like fields in the pure-function check (1500 is 1.5 ms).
MaxMilli == 1500

-----------------------------------------------------------------------------
(* Strings as byte sequences.                                              *)

\* The printable ASCII characters, code 32 (space) to 126 (~), in order; the
\* grave accent (96) is spelled out, the lexer does not take it in a string.
Printable ==
    <<" ", "!", "\"", "#", "$", "%", "&", "'", "(", ")", "*", "+", ",", "-",
      ".", "/", "0", "1", "2", "3", "4", "5", "6", "7", "8", "9", ":", ";",
      "<", "=", ">", "?", "@", "A", "B", "C", "D", "E", "F", "G", "H", "I",
      "J", "K", "L", "M", "N", "O", "P", "Q", "R", "S", "T", "U", "V", "W",
      "X", "Y", "Z", "[", "\\", "]", "^", "_", "(grave)", "a", "b", "c", "d", "e",
      "f", "g", "h", "i", "j", "k", "l", "m", "n", "o", "p", "q", "r", "s",
      "t", "u", "v", "w", "x", "y", "z", "{", "|", "}", "~">>

\* The byte of one ASCII character.
Ord(c) == 31 + (CHOOSE i \in 1..Len(Printable) : Printable[i] = c)

\* []byte(s) of an ASCII string written as a tuple of its characters.
Str(chars) == [i \in 1..Len(chars) |-> Ord(chars[i])]

\* unicode.ToLower on one ASCII byte.
ToLowerByte(b) == IF b >= 65 /\ b <= 90 THEN b + 32 ELSE b

\* strings.ToLower, on ASCII names.
ToLower(s) == [i \in 1..Len(s) |-> ToLowerByte(s[i])]

-----------------------------------------------------------------------------
(* Redaction filter: Parser.redactAuthHeaders.                             *)

\* The value written over a sensitive header's value.
Sentinel == "[REDACTED]"

\* The keys of the authHeaders map, all lower-case.
authHeaders ==
    { Str(<<"a","u","t","h","o","r","i","z","a","t","i","o","n">>),
      Str(<<"x","-","a","p","i","-","k","e","y">>),
      Str(<<"x","-","a","u","t","h","-","t","o","k","e","n">>),
      Str(<<"c","o","o","k","i","e">>),
      Str(<<"s","e","t","-","c","o","o","k","i","e">>),
      Str(<<"p","r","o","x","y","-","a","u","t","h","o","r","i","z","a","t","i","o","n">>) }

\* A faulty variant of redactAuthHeaders that redacts by exact (case-sensitive) match.
redactAuthHeadersExact(headers) ==
    [i \in 1..Len(headers) |->
        [Name  |-> headers[i].Name,
         Value |-> IF headers[i].Name \in authHeaders
                   THEN Sentinel ELSE headers[i].Value]]

\* A faulty variant of redactAuthHeaders that puts the sentinel in front of
\* the value instead of replacing it.
redactAuthHeadersPrefix(headers) ==
    [i \in 1..Len(headers) |->
        [Name  |-> headers[i].Name,
         Value |-> IF ToLower(headers[i].Name) \in authHeaders
                   THEN Sentinel \o headers[i].Value ELSE headers[i].Value]]

\* A faulty variant of redactAuthHeadersCall whose result shares the caller's
\* backing array (redactedHeaders := headers): each write lands in both.
redactAuthHeadersInPlace(headers) ==
    LET written == [i \in 1..Len(headers) |->
                      [Name  |-> headers[i].Name,
                       Value |-> IF ToLower(headers[i].Name) \in authHeaders
                                 THEN Sentinel ELSE headers[i].Value]]
    IN  [headers |-> written, redactedHeaders |-> written]

RECURSIVE redactLoop(_, _)
\* The loop of redactAuthHeaders from element i on, over the memory of the
\* call: the caller's slice (headers) and the slice made by the call
\* (redactedHeaders).  Every write goes to redactedHeaders[i].
redactLoop(mem, i) ==
    IF i > Len(mem.headers) THEN mem
    ELSE LET header == mem.headers[i]
             copied == [mem EXCEPT !.redactedHeaders[i] =
                            [Name |-> header.Name, Value |-> header.Value]]
         IN  redactLoop(IF ToLower(header.Name) \in authHeaders
                        THEN [copied EXCEPT !.redactedHeaders[i].Value = Sentinel]
                        ELSE copied,
                        i + 1)

\* The memory after a call of redactAuthHeaders: make() gives a slice of zero
\* headers with its own backing array, then the loop runs.
redactAuthHeadersCall(headers) ==
    redactLoop([headers |-> headers,
                redactedHeaders |-> [i \in 1..Len(headers) |->
                                        [Name |-> <<>>, Value |-> ""]]], 1)

\* redactAuthHeaders returns the slice it made: of the same length, each
\* element a copy of Name and Value, the Value overwritten when the
\* lower-cased Name is a key of the map.
redactAuthHeaders(headers) == redactAuthHeadersCall(headers).redactedHeaders

-----------------------------------------------------------------------------
(* Tolerant decoder: FlexibleTime.                                         *)

\* A JSON value given for a time-like field: a number, written without
\* ("int") or with ("float") a fraction or exponent and worth milli/1000, or
\* a value that is no number at all.
JInt(n) == [kind |-> "number", repr |-> "int", milli |-> n * 1000]
JFloat(m) == [kind |-> "number", repr |-> "float", milli |-> m]
JString == [kind |-> "string"]
JNull == [kind |-> "null"]
JAbsent == [kind |-> "absent"]

\* A faulty variant of the float64-to-int64 conversion: rounds down (floor).
Int64OfFloatFloor(milli) == milli \div 1000

\* int64(f) of a float64 f worth milli/1000: Go's conversion discards the
\* fraction, that is, truncates toward zero.
Int64OfFloat(milli) ==
    IF milli >= 0 THEN milli \div 1000 ELSE -((-milli) \div 1000)

\* FlexibleTime.UnmarshalJSON: json.Unmarshal into a float64, which fails on
\* anything but a number (and leaves 0 on null), then the conversion.
UnmarshalJSON(data) ==
    CASE data.kind = "number" -> [err |-> Nil, val |-> Int64OfFloat(data.milli)]
      [] data.kind = "null"   -> [err |-> Nil, val |-> 0]
      [] OTHER                -> [err |-> [kind |-> "type", what |-> "float64"],
                                  val |-> 0]

\* The fields of FlexibleEntry and FlexibleTimings declared as FlexibleTime.
FlexibleTimeFields ==
    { "time", "send", "wait", "receive", "blocked", "dns", "connect", "ssl" }

-----------------------------------------------------------------------------
(* base64.StdEncoding.DecodeString, as used on content text.               *)

\* The 6-bit value of a byte of the standard alphabet, or -1.
B64Val(b) ==
    CASE b >= 65 /\ b <= 90  -> b - 65
      [] b >= 97 /\ b <= 122 -> b - 71
      [] b >= 48 /\ b <= 57  -> b + 4
      [] b = 43              -> 62
      [] b = 47              -> 63
      [] OTHER               -> -1

\* The decoder skips carriage returns and line feeds.
StripNewlines(s) == SelectSeq(s, LAMBDA b : b # 10 /\ b # 13)

\* The bytes of one quantum of four characters; pad counts its trailing '='.
QuantumBytes(q, pad) ==
    LET v == B64Val(q[1]) * 262144 + B64Val(q[2]) * 4096
             + (IF pad >= 2 THEN 0 ELSE B64Val(q[3]) * 64)
             + (IF pad >= 1 THEN 0 ELSE B64Val(q[4]))
        b1 == v \div 65536
        b2 == (v \div 256) % 256
        b3 == v % 256
    IN  CASE pad = 0 -> <<b1, b2, b3>>
          [] pad = 1 -> <<b1, b2>>
          [] OTHER   -> <<b1>>

RECURSIVE DecodeQuanta(_)
\* Decodes the quanta of s (a multiple of four long) from the left; padding
\* is accepted in the last quantum only, as "xx==" or "xxx=".
DecodeQuanta(s) ==
    IF Len(s) = 0 THEN [ok |-> TRUE, bytes |-> <<>>]
    ELSE LET q == SubSeq(s, 1, 4)
             last == Len(s) = 4
             pad == IF last /\ q[4] = 61 THEN (IF q[3] = 61 THEN 2 ELSE 1) ELSE 0
             good == \A i \in 1..(4 - pad) : B64Val(q[i]) >= 0
             rest == DecodeQuanta(SubSeq(s, 5, Len(s)))
         IN  IF good /\ rest.ok
             THEN [ok |-> TRUE, bytes |-> QuantumBytes(q, pad) \o rest.bytes]
             ELSE [ok |-> FALSE, bytes |-> <<>>]

DecodeString(s) ==
    LET t == StripNewlines(s)
    IN  IF Len(t) % 4 # 0 THEN [ok |-> FALSE, bytes |-> <<>>] ELSE DecodeQuanta(t)

-----------------------------------------------------------------------------
(* Tolerant decoder: FlexibleContent.ToStandardContent.                    *)

\* The raw JSON kept for content.text: absent, a JSON string (its unescaped
\* bytes), or a JSON value that is neither a string nor an array.
NoText == [kind |-> "absent"]
TextString(bytes) == [kind |-> "string", bytes |-> bytes]
TextOther == [kind |-> "other"]

\* A faulty variant of ToStandardContent: decodes whenever the text is valid base64,
\* whatever the encoding tag says.
ToStandardContentAlwaysDecode(fc) ==
    IF fc = Nil THEN Nil
    ELSE [Size |-> fc.Size, MimeType |-> fc.MimeType, Encoding |-> fc.Encoding,
          Text |-> IF fc.Text.kind = "string"
                   THEN IF DecodeString(fc.Text.bytes).ok
                        THEN DecodeString(fc.Text.bytes).bytes
                        ELSE fc.Text.bytes
                   ELSE <<>>]

\* Size, MimeType and Encoding are copied; Text is resolved from the raw JSON:
\* a string tagged "base64" is decoded, or kept as its bytes when decoding
\* fails; any other string is kept as its bytes; anything else leaves Text
\* empty.  A nil receiver gives nil.
ToStandardContent(fc) ==
    IF fc = Nil THEN Nil
    ELSE [Size |-> fc.Size, MimeType |-> fc.MimeType, Encoding |-> fc.Encoding,
          Text |-> IF fc.Text.kind = "string"
                   THEN IF fc.Encoding = "base64"
                        THEN IF DecodeString(fc.Text.bytes).ok
                             THEN DecodeString(fc.Text.bytes).bytes
                             ELSE fc.Text.bytes
                        ELSE fc.Text.bytes
                   ELSE <<>>]

-----------------------------------------------------------------------------
(* HAR documents.                                                          *)
(*                                                                         *)
(* A document is what the JSON text says: either text that is no JSON, or  *)
(* an object without a "log", or an object whose log holds entries, or an  *)
(* object that gives "log" twice, first with entries and then as null (the *)
(* decoder takes the keys in turn, so the log ends up nil).  An            *)
(* entry gives, in this order, time, request, response and timings; each   *)
(* may be absent.  A request gives method, url and headers; a response     *)
(* gives headers and content; content gives text and encoding; timings     *)
(* gives any of the seven phases.                                          *)

Phases == <<"blocked", "dns", "connect", "send", "wait", "receive", "ssl">>
PhaseSet == { Phases[i] : i \in 1..Len(Phases) }

SyntaxDoc == [kind |-> "syntax"]
NoLogDoc == [kind |-> "nolog"]

\* Fields a document may carry besides those of the HAR model, each absent, a
\* JSON string or a JSON number: in the log, and in an entry.
LogExtNames == {"browser", "pages", "comment"}
EntryExtNames == {"_id", "serverIPAddress", "connection", "comment", "_priority"}
NoLogExt == [n \in LogExtNames |-> "absent"]
NoEntryExt == [n \in EntryExtNames |-> "absent"]

HarDoc(entries) == [kind |-> "har", entries |-> entries, ext |-> NoLogExt]
DupLogDoc(entries) == [kind |-> "duplog", entries |-> entries, ext |-> NoLogExt]

\* Errors of the JSON decoder.  A soft error (a value of the wrong type for
\* its field, or text that is not base64 for a []byte field) is saved and
\* decoding goes on; a hard error (one returned by an UnmarshalJSON method)
\* ends decoding at once.
SyntaxError == [kind |-> "syntax", entry |-> -1, field |-> "", hard |-> TRUE]
TypeError(i, field, goType, hard) ==
    [kind |-> "type", entry |-> i, field |-> field, goType |-> goType, hard |-> hard]
Base64Error(i) ==
    [kind |-> "base64", entry |-> i, field |-> "text", hard |-> FALSE]

\* What Decode returns for the errors met in document order: the first hard
\* one if there is any (decoding stopped there), else the first saved one.
FirstError(errs) ==
    LET hard == { k \in 1..Len(errs) : errs[k].hard }
    IN  IF hard # {} THEN errs[CHOOSE k \in hard : \A j \in hard : k <= j]
        ELSE IF Len(errs) > 0 THEN errs[1] ELSE Nil

RECURSIVE Flatten(_)
Flatten(ss) == IF Len(ss) = 0 THEN <<>> ELSE Head(ss) \o Flatten(Tail(ss))

-----------------------------------------------------------------------------
(* Strict decoder: json.Decoder into har.HAR.                              *)

\* An int64 field: a number written as an integer is taken, null and absence
\* leave zero, anything else is a type error that leaves zero.
Int64Field(j) ==
    IF j.kind = "number" /\ j.repr = "int" THEN j.milli \div 1000 ELSE 0

Int64FieldErrors(j, i, field) ==
    IF j.kind \in {"absent", "null"} \/ (j.kind = "number" /\ j.repr = "int")
    THEN <<>> ELSE <<TypeError(i, field, "int64", FALSE)>>

\* har.Request, decoded alike by both decoders: a method that is no JSON
\* string is a type error.
RequestOf(r) ==
    IF r = Nil THEN Nil
    ELSE [Method      |-> IF r.method.kind = "string" THEN r.method.bytes ELSE <<>>,
          URL         |-> r.url,
          HTTPVersion |-> r.httpVersion,
          Cookies     |-> r.cookies,
          Headers     |-> r.headers,
          QueryString |-> r.queryString,
          PostData    |-> r.postData,
          HeadersSize |-> r.headersSize,
          BodySize    |-> r.bodySize]

RequestErrors(r, i) ==
    IF r # Nil /\ r.method.kind # "string"
    THEN <<TypeError(i, "method", "string", FALSE)>> ELSE <<>>

\* har.Content: Text is a []byte, which encoding/json fills by base64-decoding
\* the JSON string, whatever the encoding field says.
StrictContent(c) ==
    IF c = Nil THEN Nil
    ELSE [Size |-> c.size, MimeType |-> c.mimeType, Encoding |-> c.encoding,
          Text |-> IF c.text.kind = "string" /\ DecodeString(c.text.bytes).ok
                   THEN DecodeString(c.text.bytes).bytes ELSE <<>>]

StrictContentErrors(c, i) ==
    IF c = Nil \/ c.text.kind = "absent" THEN <<>>
    ELSE IF c.text.kind # "string" THEN <<TypeError(i, "text", "[]uint8", FALSE)>>
    ELSE IF DecodeString(c.text.bytes).ok THEN <<>> ELSE <<Base64Error(i)>>

StrictResponse(r) ==
    IF r = Nil THEN Nil
    ELSE [Headers |-> r.headers, Content |-> StrictContent(r.content)]

\* har.Timings has the fields send, wait and receive only; the other phases
\* of the document are unknown fields, which the decoder skips.
StrictTimings(t) ==
    IF t = Nil THEN Nil
    ELSE [Send    |-> Int64Field(t["send"]),
          Wait    |-> Int64Field(t["wait"]),
          Receive |-> Int64Field(t["receive"])]

StrictTimingsErrors(t, i) ==
    IF t = Nil THEN <<>>
    ELSE Flatten([k \in 1..Len(Phases) |->
            IF Phases[k] \in {"send", "wait", "receive"}
            THEN Int64FieldErrors(t[Phases[k]], i, Phases[k]) ELSE <<>>])

\* A string field of a struct: a JSON number for it is a type error and
\* leaves it empty.
StringField(kind) == IF kind = "string" THEN "given" ELSE ""

StringFieldErrors(kind, i, field) ==
    IF kind = "number" THEN <<TypeError(i, field, "string", FALSE)>> ELSE <<>>

\* har.Entry declares _id, startedDateTime, time, request, response, cache
\* and timings; any other key of an entry is skipped.  A null element of
\* "entries" is a nil *har.Entry.
StrictEntry(e) ==
    IF e = Nil THEN Nil
    ELSE [ID              |-> StringField(e.ext["_id"]),
          StartedDateTime |-> e.startedDateTime,
          Time            |-> Int64Field(e.time),
          Request         |-> RequestOf(e.request),
          Response        |-> StrictResponse(e.response),
          Cache           |-> e.cache,
          Timings         |-> StrictTimings(e.timings)]

StrictEntryErrors(e, i) ==
    IF e = Nil THEN <<>>
    ELSE StringFieldErrors(e.ext["_id"], i, "_id")
         \o Int64FieldErrors(e.time, i, "time")
         \o RequestErrors(e.request, i)
         \o StrictContentErrors(IF e.response = Nil THEN Nil ELSE e.response.content, i)
         \o StrictTimingsErrors(e.timings, i)

\* Decode(&harData) of Parse's first attempt.
StrictDecode(doc) ==
    CASE doc.kind = "syntax" -> [err |-> SyntaxError, har |-> Nil]
      [] doc.kind = "nolog"  -> [err |-> Nil, har |-> [Log |-> Nil]]
      [] OTHER ->
            [err |-> FirstError(Flatten([k \in 1..Len(doc.entries) |->
                        StrictEntryErrors(doc.entries[k], k - 1)])),
             har |-> IF doc.kind = "duplog" THEN [Log |-> Nil]
                     ELSE [Log |-> [Entries |-> [k \in 1..Len(doc.entries) |->
                              StrictEntry(doc.entries[k])]]]]

-----------------------------------------------------------------------------
(* Tolerant decoder: json.Decoder into FlexibleHAR.                        *)

\* A faulty variant of FlexibleTimeErrors that takes an absent field for an
\* error.
FlexibleTimeErrorsRequired(j, i, field) ==
    IF j.kind # "absent" /\ UnmarshalJSON(j).err = Nil THEN <<>>
    ELSE <<TypeError(i, field, "float64", TRUE)>>

\* A FlexibleTime field: UnmarshalJSON is called for a value that is present.
FlexibleTimeField(j) == IF j.kind = "absent" THEN 0 ELSE UnmarshalJSON(j).val

FlexibleTimeErrors(j, i, field) ==
    IF j.kind = "absent" \/ UnmarshalJSON(j).err = Nil THEN <<>>
    ELSE <<TypeError(i, field, "float64", TRUE)>>

\* FlexibleContent keeps the text as raw JSON and decodes nothing yet.
FlexibleContentOf(c) ==
    IF c = Nil THEN Nil
    ELSE [Size |-> c.size, MimeType |-> c.mimeType, Encoding |-> c.encoding,
          Text |-> c.text]

FlexibleResponseOf(r) ==
    IF r = Nil THEN Nil
    ELSE [Headers |-> r.headers, Content |-> FlexibleContentOf(r.content)]

\* FlexibleTimings declares all seven phases.
FlexibleTimingsOf(t) ==
    IF t = Nil THEN Nil
    ELSE [Send    |-> FlexibleTimeField(t["send"]),
          Wait    |-> FlexibleTimeField(t["wait"]),
          Receive |-> FlexibleTimeField(t["receive"]),
          Blocked |-> FlexibleTimeField(t["blocked"]),
          DNS     |-> FlexibleTimeField(t["dns"]),
          Connect |-> FlexibleTimeField(t["connect"]),
          SSL     |-> FlexibleTimeField(t["ssl"])]

FlexibleTimingsErrors(t, i) ==
    IF t = Nil THEN <<>>
    ELSE Flatten([k \in 1..Len(Phases) |->
            FlexibleTimeErrors(t[Phases[k]], i, Phases[k])])

\* An instant is counted in seconds and milliseconds from the start of the
\* capture; the zero time.Time lies before every instant of a document.
ZeroTime == [sec |-> -1, milli |-> 0]

\* FlexibleEntry declares, besides the fields of har.Entry, the strings
\* serverIPAddress, connection and comment.  A null element of "entries"
\* leaves the element of the []FlexibleEntry slice at its zero value.
FlexibleEntryOf(e) ==
    IF e = Nil
    THEN [ID |-> "", StartedDateTime |-> ZeroTime, Time |-> 0, Request |-> Nil,
          Response |-> Nil, Cache |-> Nil, Timings |-> Nil,
          ServerIPAddress |-> "", Connection |-> "", Comment |-> ""]
    ELSE [ID              |-> StringField(e.ext["_id"]),
          StartedDateTime |-> e.startedDateTime,
          Time            |-> FlexibleTimeField(e.time),
          Request         |-> RequestOf(e.request),
          Response        |-> FlexibleResponseOf(e.response),
          Cache           |-> e.cache,
          Timings         |-> FlexibleTimingsOf(e.timings),
          ServerIPAddress |-> StringField(e.ext["serverIPAddress"]),
          Connection      |-> StringField(e.ext["connection"]),
          Comment         |-> StringField(e.ext["comment"])]

FlexibleEntryErrors(e, i) ==
    IF e = Nil THEN <<>>
    ELSE StringFieldErrors(e.ext["_id"], i, "_id")
         \o FlexibleTimeErrors(e.time, i, "time")
         \o RequestErrors(e.request, i)
         \o FlexibleTimingsErrors(e.timings, i)
         \o StringFieldErrors(e.ext["serverIPAddress"], i, "serverIPAddress")
         \o StringFieldErrors(e.ext["connection"], i, "connection")
         \o StringFieldErrors(e.ext["comment"], i, "comment")

\* Decode(&flexibleHAR) of Parse's second attempt.
TolerantDecode(doc) ==
    CASE doc.kind = "syntax" -> [err |-> SyntaxError, har |-> Nil]
      [] doc.kind = "nolog"  -> [err |-> Nil, har |-> [Log |-> Nil]]
      [] OTHER ->
            [err |-> FirstError(StringFieldErrors(doc.ext["comment"], -1, "comment")
                        \o Flatten([k \in 1..Len(doc.entries) |->
                              FlexibleEntryErrors(doc.entries[k], k - 1)])),
             har |-> IF doc.kind = "duplog" THEN [Log |-> Nil]
                     ELSE [Log |-> [Entries |-> [k \in 1..Len(doc.entries) |->
                              FlexibleEntryOf(doc.entries[k])]]]]

-----------------------------------------------------------------------------
(* Conversion of the tolerant form to the canonical model.                 *)

\* FlexibleTimings.ToStandardTimings: Send, Wait and Receive are copied; the
\* result has no other field.
ToStandardTimings(ft) ==
    IF ft = Nil THEN Nil
    ELSE [Send |-> ft.Send, Wait |-> ft.Wait, Receive |-> ft.Receive]

\* FlexibleResponse.ToStandardResponse.
ToStandardResponse(fr) ==
    IF fr = Nil THEN Nil
    ELSE [Headers |-> fr.Headers, Content |-> ToStandardContent(fr.Content)]

\* A faulty variant of ToStandardHAR that fills the entries in reverse order.
ToStandardHARReversed(fh) ==
    IF fh.Log = Nil THEN [panic |-> TRUE, har |-> Nil]
    ELSE [panic |-> FALSE,
          har |-> [Log |-> [Entries |-> [k \in 1..Len(fh.Log.Entries) |->
              LET flexEntry == fh.Log.Entries[Len(fh.Log.Entries) + 1 - k]
              IN  [ID              |-> flexEntry.ID,
                   StartedDateTime |-> flexEntry.StartedDateTime,
                   Time            |-> flexEntry.Time,
                   Request         |-> flexEntry.Request,
                   Response        |-> ToStandardResponse(flexEntry.Response),
                   Cache           |-> flexEntry.Cache,
                   Timings         |-> ToStandardTimings(flexEntry.Timings)]]]]]

\* FlexibleHAR.ToStandardHAR: reading fh.Log.Version panics on a nil Log;
\* otherwise entry i of the result is the conversion of entry i.
ToStandardHAR(fh) ==
    IF fh.Log = Nil THEN [panic |-> TRUE, har |-> Nil]
    ELSE [panic |-> FALSE,
          har |-> [Log |-> [Entries |-> [k \in 1..Len(fh.Log.Entries) |->
              LET flexEntry == fh.Log.Entries[k]
              IN  [ID              |-> flexEntry.ID,
                   StartedDateTime |-> flexEntry.StartedDateTime,
                   Time            |-> flexEntry.Time,
                   Request         |-> flexEntry.Request,
                   Response        |-> ToStandardResponse(flexEntry.Response),
                   Cache           |-> flexEntry.Cache,
                   Timings         |-> ToStandardTimings(flexEntry.Timings)]]]]]

-----------------------------------------------------------------------------
(* Archive parser: Parser.Parse.                                           *)

ParseErrorMsg == "failed to parse HAR file"

\* A faulty variant of Parse that wraps the strict decoder's error.
ParseStrictCause(doc) ==
    IF StrictDecode(doc).err = Nil
    THEN [har |-> StrictDecode(doc).har, err |-> Nil, panic |-> FALSE,
          ran |-> <<"strict">>]
    ELSE IF TolerantDecode(doc).err # Nil
    THEN [har |-> Nil, panic |-> FALSE, ran |-> <<"strict", "tolerant">>,
          err |-> [msg |-> ParseErrorMsg, cause |-> StrictDecode(doc).err]]
    ELSE [har |-> ToStandardHAR(TolerantDecode(doc).har).har, err |-> Nil,
          panic |-> ToStandardHAR(TolerantDecode(doc).har).panic,
          ran |-> <<"strict", "tolerant">>]

\* Parse on the bytes read: the strict decoder first; if it returns no error
\* its archive is the result.  Otherwise the tolerant decoder on the same
\* bytes: its error is wrapped and returned with a nil archive, or its result
\* is converted and returned.  ran lists the decoders run.
Parse(doc) ==
    IF StrictDecode(doc).err = Nil
    THEN [har |-> StrictDecode(doc).har, err |-> Nil, panic |-> FALSE,
          ran |-> <<"strict">>]
    ELSE IF TolerantDecode(doc).err # Nil
    THEN [har |-> Nil, panic |-> FALSE, ran |-> <<"strict", "tolerant">>,
          err |-> [msg |-> ParseErrorMsg, cause |-> TolerantDecode(doc).err]]
    ELSE [har |-> ToStandardHAR(TolerantDecode(doc).har).har, err |-> Nil,
          panic |-> ToStandardHAR(TolerantDecode(doc).har).panic,
          ran |-> <<"strict", "tolerant">>]

-----------------------------------------------------------------------------
(* Index and query engine.                                                 *)

RECURSIVE FormatInt(_)
\* The decimal digits of a natural number, as %d prints it.
FormatInt(n) ==
    IF n < 10 THEN <<48 + n>> ELSE Append(FormatInt(n \div 10), 48 + (n % 10))

IDPrefix == Str(<<"r","e","q","u","e","s","t","_">>)

\* fmt.Sprintf("request_%d", i)
RequestID(i) == IDPrefix \o FormatInt(i)

\* fmt.Sprintf("%s|%s", url, method)
MapKey(url, method) == url \o <<124>> \o method

RECURSIVE urlMethodMap(_, _)
\* The map GetURLsAndMethods builds, after the first n entries: an entry
\* without a request is skipped; an entry whose key is in the map appends its
\* ID to that element; any other adds an element with its URL, method and ID.
urlMethodMap(entries, n) ==
    IF n = 0 THEN <<>>
    ELSE LET m == urlMethodMap(entries, n - 1)
             entry == entries[n]
         IN  IF entry.Request = Nil THEN m
             ELSE LET key == MapKey(entry.Request.URL, entry.Request.Method)
                      requestID == RequestID(n - 1)
                  IN  IF key \in DOMAIN m
                      THEN [m EXCEPT ![key].RequestIDs = Append(@, requestID)]
                      ELSE [k \in DOMAIN m \cup {key} |->
                              IF k = key
                              THEN [URL        |-> entry.Request.URL,
                                    Method     |-> entry.Request.Method,
                                    RequestIDs |-> <<requestID>>]
                              ELSE m[k]]

\* The results GetURLsAndMethods can return: the elements of the map in any
\* order (Go does not fix the iteration order of a map).  A nil Log panics,
\* and so does reading the request of a nil entry.
GetURLsAndMethods(har) ==
    IF har.Log = Nil \/ \E k \in 1..Len(har.Log.Entries) : har.Log.Entries[k] = Nil
    THEN [panic |-> TRUE, results |-> {}]
    ELSE LET m == urlMethodMap(har.Log.Entries, Len(har.Log.Entries))
             n == Cardinality(DOMAIN m)
             orders == { o \in [1..n -> DOMAIN m] :
                           \A a, b \in 1..n : o[a] = o[b] => a = b }
         IN  [panic |-> FALSE,
              results |-> { [k \in 1..n |-> m[o[k]]] : o \in orders }]

\* GetRequestIDsForURLMethod: the IDs of the entries that have a request with
\* this URL and this method, in entry order.  A nil Log or a nil entry panics.
GetRequestIDsForURLMethod(har, targetURL, method) ==
    IF har.Log = Nil \/ \E k \in 1..Len(har.Log.Entries) : har.Log.Entries[k] = Nil
    THEN [panic |-> TRUE, ids |-> <<>>]
    ELSE LET entries == har.Log.Entries
             hit(k) == /\ entries[k].Request # Nil
                       /\ entries[k].Request.URL = targetURL
                       /\ entries[k].Request.Method = method
         IN  [panic |-> FALSE,
              ids |-> Flatten([k \in 1..Len(entries) |->
                         IF hit(k) THEN <<RequestID(k - 1)>> ELSE <<>>])]

RECURSIVE ParseDecimal(_)
ParseDecimal(ds) ==
    IF Len(ds) = 0 THEN 0
    ELSE ParseDecimal(SubSeq(ds, 1, Len(ds) - 1)) * 10 + (ds[Len(ds)] - 48)

RECURSIVE SpanLen(_, _)
\* The length of the longest prefix of s whose bytes are all in allowed.
SpanLen(s, allowed) ==
    IF Len(s) = 0 \/ s[1] \notin allowed THEN 0 ELSE 1 + SpanLen(Tail(s), allowed)

\* fmt.Sscanf(requestID, "request_%d", &index): the literal text must match;
\* %d then skips blanks, takes an optional sign and the longest run of digits
\* and underscores, which must be a decimal number; what follows the number
\* is not looked at.
Sscanf(requestID) ==
    IF Len(requestID) < Len(IDPrefix)
       \/ SubSeq(requestID, 1, Len(IDPrefix)) # IDPrefix
    THEN [ok |-> FALSE, index |-> 0]
    ELSE LET rest == SubSeq(requestID, Len(IDPrefix) + 1, Len(requestID))
             blanks == SpanLen(rest, {32, 9})
             r1 == SubSeq(rest, blanks + 1, Len(rest))
             signed == Len(r1) > 0 /\ (r1[1] = 43 \/ r1[1] = 45)
             r2 == IF signed THEN Tail(r1) ELSE r1
             n == SpanLen(r2, (48..57) \cup {95})
             tok == SubSeq(r2, 1, n)
         IN  IF n = 0 \/ \E k \in 1..n : tok[k] = 95
             THEN [ok |-> FALSE, index |-> 0]
             ELSE [ok |-> TRUE,
                   index |-> IF signed /\ r1[1] = 45
                             THEN -ParseDecimal(tok) ELSE ParseDecimal(tok)]

InvalidIDMsg == "invalid request ID format"
OutOfRangeMsg == "request ID out of range"

\* time.Time.Format(time.RFC3339): the text gives the instant to the second;
\* the layout has no fraction of a second.
FormatRFC3339(t) == [layout |-> "RFC3339", sec |-> t.sec]

\* float64(entry.Time): exact for the times of the model.
Float64OfInt64(n) == [float64 |-> n]

\* A faulty variant of GetRequestDetails without the range check: every
\* identifier that scans is answered.
GetRequestDetailsUnchecked(har, requestID) ==
    IF ~Sscanf(requestID).ok
    THEN [panic |-> FALSE, err |-> InvalidIDMsg, details |-> Nil, har |-> har]
    ELSE [panic |-> FALSE, err |-> "", har |-> har,
          details |-> [RequestID |-> requestID]]

\* A faulty variant of GetRequestDetails whose range check lets the index
\* len(Entries) through: indexing the entries with it panics.
GetRequestDetailsOffByOne(har, requestID) ==
    IF ~Sscanf(requestID).ok
    THEN [panic |-> FALSE, err |-> InvalidIDMsg, details |-> Nil, har |-> har]
    ELSE IF har.Log = Nil
    THEN [panic |-> TRUE, err |-> "", details |-> Nil, har |-> har]
    ELSE LET index == Sscanf(requestID).index
         IN  IF index < 0 \/ index > Len(har.Log.Entries)
             THEN [panic |-> FALSE, err |-> OutOfRangeMsg, details |-> Nil, har |-> har]
             ELSE IF index = Len(har.Log.Entries)
             THEN [panic |-> TRUE, err |-> "", details |-> Nil, har |-> har]
             ELSE LET entry == har.Log.Entries[index + 1]
                  IN  IF entry = Nil \/ entry.Request = Nil
                      THEN [panic |-> TRUE, err |-> "", details |-> Nil, har |-> har]
                      ELSE LET mem == redactAuthHeadersCall(entry.Request.Headers)
                           IN  [panic |-> FALSE, err |-> "",
                                har |-> [har EXCEPT
                                    !.Log.Entries[index + 1].Request.Headers = mem.headers],
                                details |->
                                  [RequestID       |-> requestID,
                                   StartedDateTime |-> FormatRFC3339(entry.StartedDateTime),
                                   Time            |-> Float64OfInt64(entry.Time),
                                   Request         |->
                                     [Method      |-> entry.Request.Method,
                                      URL         |-> entry.Request.URL,
                                      HTTPVersion |-> entry.Request.HTTPVersion,
                                      Cookies     |-> entry.Request.Cookies,
                                      Headers     |-> mem.redactedHeaders,
                                      QueryString |-> entry.Request.QueryString,
                                      PostData    |-> entry.Request.PostData,
                                      HeadersSize |-> entry.Request.HeadersSize,
                                      BodySize    |-> entry.Request.BodySize],
                                   Response        |-> entry.Response,
                                   Cache           |-> entry.Cache,
                                   Timings         |-> entry.Timings]]

\* GetRequestDetails: the index is scanned from the ID and checked against the
\* entries; the entry's request is copied with its headers redacted, the start
\* time is formatted, the time converted, and the entry's response, cache and
\* timings are passed as they are.  A nil Log, a nil entry or an entry without
\* a request panics.  har is the archive as the call leaves it.
GetRequestDetails(har, requestID) ==
    IF ~Sscanf(requestID).ok
    THEN [panic |-> FALSE, err |-> InvalidIDMsg, details |-> Nil, har |-> har]
    ELSE IF har.Log = Nil
    THEN [panic |-> TRUE, err |-> "", details |-> Nil, har |-> har]
    ELSE LET index == Sscanf(requestID).index
         IN  IF index < 0 \/ index >= Len(har.Log.Entries)
             THEN [panic |-> FALSE, err |-> OutOfRangeMsg, details |-> Nil, har |-> har]
             ELSE LET entry == har.Log.Entries[index + 1]
                  IN  IF entry = Nil \/ entry.Request = Nil
                      THEN [panic |-> TRUE, err |-> "", details |-> Nil, har |-> har]
                      ELSE LET mem == redactAuthHeadersCall(entry.Request.Headers)
                           IN  [panic |-> FALSE, err |-> "",
                                har |-> [har EXCEPT
                                    !.Log.Entries[index + 1].Request.Headers = mem.headers],
                                details |->
                                  [RequestID       |-> requestID,
                                   StartedDateTime |-> FormatRFC3339(entry.StartedDateTime),
                                   Time            |-> Float64OfInt64(entry.Time),
                                   Request         |->
                                     [Method      |-> entry.Request.Method,
                                      URL         |-> entry.Request.URL,
                                      HTTPVersion |-> entry.Request.HTTPVersion,
                                      Cookies     |-> entry.Request.Cookies,
                                      Headers     |-> mem.redactedHeaders,
                                      QueryString |-> entry.Request.QueryString,
                                      PostData    |-> entry.Request.PostData,
                                      HeadersSize |-> entry.Request.HeadersSize,
                                      BodySize    |-> entry.Request.BodySize],
                                   Response        |-> entry.Response,
                                   Cache           |-> entry.Cache,
                                   Timings         |-> entry.Timings]]

-----------------------------------------------------------------------------
(* Source acquisition: Parser.ParseSource.                                 *)

\* A source designator together with what the file system or the network
\* answers for it.
FileSource(doc) == [scheme |-> "file", failed |-> FALSE, status |-> 0, body |-> doc]
MissingFile == [scheme |-> "file", failed |-> TRUE, status |-> 0, body |-> SyntaxDoc]
URLSource(status, doc) ==
    [scheme |-> "http", failed |-> FALSE, status |-> status, body |-> doc]
URLUnreachable == [scheme |-> "http", failed |-> TRUE, status |-> 0, body |-> SyntaxDoc]

StatusOK == 200

SourceFailure(msg) ==
    [har |-> Nil, panic |-> FALSE, ran |-> <<>>, err |-> [msg |-> msg, cause |-> Nil]]

\* ParseFromFile: a file that cannot be opened is an error; else Parse.
ParseFromFile(source) ==
    IF source.failed THEN SourceFailure("failed to open HAR file")
    ELSE Parse(source.body)

\* ParseFromURL: a failed GET and a status other than 200 are errors; else
\* Parse on the body.
ParseFromURL(source) ==
    IF source.failed THEN SourceFailure("failed to fetch HAR from URL")
    ELSE IF source.status # StatusOK THEN SourceFailure("failed to fetch HAR: HTTP")
    ELSE Parse(source.body)

ParseSource(source) ==
    IF source.scheme \in {"http", "https"} THEN ParseFromURL(source)
    ELSE ParseFromFile(source)

-----------------------------------------------------------------------------
(* Inputs of the pure-function checks.                                     *)

\* Header names: the documented ones as documented, case variants of them,
\* near misses and unrelated names.
N_Authorization == Str(<<"A","u","t","h","o","r","i","z","a","t","i","o","n">>)
N_XAPIKey == Str(<<"X","-","A","P","I","-","K","e","y">>)
N_XAuthToken == Str(<<"X","-","A","u","t","h","-","T","o","k","e","n">>)
N_Cookie == Str(<<"C","o","o","k","i","e">>)
N_SetCookie == Str(<<"S","e","t","-","C","o","o","k","i","e">>)
N_ProxyAuthorization ==
    Str(<<"P","r","o","x","y","-","A","u","t","h","o","r","i","z","a","t","i","o","n">>)
N_UserAgent == Str(<<"U","s","e","r","-","A","g","e","n","t">>)
N_ContentType == Str(<<"C","o","n","t","e","n","t","-","T","y","p","e">>)

DocumentedNames ==
    { N_Authorization, N_XAPIKey, N_XAuthToken, N_Cookie, N_SetCookie,
      N_ProxyAuthorization }

HeaderNames ==
    DocumentedNames \cup
    { Str(<<"a","u","t","h","o","r","i","z","a","t","i","o","n">>),
      Str(<<"A","U","T","H","O","R","I","Z","A","T","I","O","N">>),
      Str(<<"x","-","a","p","i","-","k","e","y">>),
      Str(<<"X","-","A","p","i","-","K","e","y">>),
      Str(<<"C","O","O","K","I","E">>),
      Str(<<"s","e","t","-","C","o","o","k","i","e">>),
      Str(<<"C","o","o","k","i","e","2">>),
      Str(<<"A","u","t","h","o","r","i","z","a","t","i","o">>),
      Str(<<"X","_","A","P","I","_","K","e","y">>),
      N_UserAgent, N_ContentType, <<>> }

HeaderValues == { "secret", "Mozilla/5.0", Sentinel }

Headers == [Name : HeaderNames, Value : HeaderValues]

\* JSON numbers for the time-like fields: every thousandth up to MaxMilli in
\* magnitude written as a float, the whole ones also written as integers, and
\* the values of the tests.
TimeValues ==
    { JFloat(m) : m \in (-MaxMilli)..MaxMilli }
    \cup { JInt(n) : n \in { k \in -2..2 : k * 1000 <= MaxMilli } }
    \cup { JInt(100), JInt(123), JFloat(123456), JFloat(123900), JFloat(34000),
           JFloat(71206), JFloat(200987), JFloat(256789) }
    \cup { JString, JNull }

\* Content texts.
T_HelloWorldB64 ==
    Str(<<"S","G","V","s","b","G","8","g","V","2","9","y","b","G","Q","=">>)
T_HelloWorld == Str(<<"H","e","l","l","o"," ","W","o","r","l","d">>)
T_OkJSON == Str(<<"{","\"","o","k","\"",":"," ","t","r","u","e","}">>)
T_abcd == Str(<<"a","b","c","d">>)
T_HiB64 == Str(<<"S","G","k","=">>)
T_iB64 == Str(<<"a","Q","=","=">>)

ContentTexts ==
    { T_HelloWorldB64, T_OkJSON, T_abcd, T_HiB64, T_iB64, T_HelloWorld, <<>>,
      Str(<<"a","b","c">>), Str(<<"a","b","=","c">>), Str(<<"a","=","=","=">>),
      Str(<<"=","a","b","c">>), Str(<<"a","b","c","d","e","f","=","=">>),
      Str(<<"a","b","=","=","a","b","c","d">>), Str(<<"+","/","9","z">>) }

Encodings == { "", "base64", "BASE64", "gzip" }

FlexibleContents ==
    { Nil } \cup
    [Size : {11}, MimeType : {"text/plain"},
     Text : { NoText, TextOther } \cup { TextString(t) : t \in ContentTexts },
     Encoding : Encodings]

RECURSIVE SeqsUpTo(_, _)
\* All sequences over S of length at most n.
SeqsUpTo(S, n) ==
    IF n = 0 THEN { <<>> }
    ELSE LET shorter == SeqsUpTo(S, n - 1)
         IN  shorter \cup { Append(s, x) : s \in { t \in shorter : Len(t) = n - 1 }, x \in S }

\* Requests of the documents: GET and POST of one URL, and a request whose
\* URL and method differ from the GET's while both contain the separator of
\* the map key.
U_x == Str(<<"/","x">>)
U_xa == Str(<<"/","x","|","a">>)
M_GET == Str(<<"G","E","T">>)
M_POST == Str(<<"P","O","S","T">>)
M_aGET == Str(<<"a","|","G","E","T">>)

ReqDoc(url, method, headers) ==
    [method |-> TextString(method), url |-> url, headers |-> headers,
     httpVersion |-> "HTTP/1.1", cookies |-> <<>>, queryString |-> <<>>,
     postData |-> Nil, headersSize |-> 150, bodySize |-> 0]

RequestShapes ==
    { ReqDoc(U_xa, M_GET, <<>>), ReqDoc(U_xa, M_POST, <<>>),
      ReqDoc(U_x, M_aGET, <<>>) }

ContentDoc(text, encoding) ==
    [size |-> 11, mimeType |-> "text/plain", text |-> text, encoding |-> encoding]

ResponseDoc(headers, content) == [headers |-> headers, content |-> content]

TimingsDoc(blocked, dns, connect, send, wait, receive, ssl) ==
    [p \in PhaseSet |->
        CASE p = "blocked" -> blocked
          [] p = "dns"     -> dns
          [] p = "connect" -> connect
          [] p = "send"    -> send
          [] p = "wait"    -> wait
          [] p = "receive" -> receive
          [] OTHER         -> ssl]

\* The entry of the tests' minimal document, without timings.
PlainEntry(request) ==
    [startedDateTime |-> [sec |-> 0, milli |-> 0],
     time     |-> JInt(100),
     request  |-> request,
     response |-> ResponseDoc(<<>>, ContentDoc(NoText, "")),
     cache    |-> Nil,
     timings  |-> Nil,
     ext      |-> NoEntryExt]

E_Plain == PlainEntry(ReqDoc(U_xa, M_GET, <<>>))

SecretHeaders ==
    << [Name |-> N_UserAgent, Value |-> "Mozilla/5.0"],
       [Name |-> N_Authorization, Value |-> "secret"],
       [Name |-> Str(<<"c","o","o","k","i","e">>), Value |-> "secret"] >>

SetCookieHeaders ==
    << [Name |-> N_ContentType, Value |-> "text/plain"],
       [Name |-> N_SetCookie, Value |-> "secret"] >>

\* Integer timings for all seven phases, as in the tests' minimal document.
T_AllInt ==
    TimingsDoc(JInt(1), JInt(2), JInt(3), JInt(4), JInt(50), JInt(40), JInt(5))
\* Float timings for all seven phases, as in the tests' complex document.
T_AllFloat ==
    TimingsDoc(JFloat(500), JFloat(5200), JFloat(15700), JFloat(402),
               JFloat(200987), JFloat(34000), JFloat(10500))
\* Float timings for send, wait and receive only.
T_ThreeFloat ==
    TimingsDoc(JAbsent, JAbsent, JAbsent, JFloat(1500), JFloat(50750),
               JFloat(71206), JAbsent)
\* Integer send, wait and receive, float blocked.
T_BlockedFloat ==
    TimingsDoc(JFloat(500), JAbsent, JAbsent, JInt(4), JInt(50), JInt(40), JAbsent)

\* A timings object that gives wait only.
T_WaitOnly ==
    TimingsDoc(JAbsent, JAbsent, JAbsent, JAbsent, JInt(50), JAbsent, JAbsent)

\* Entries without response and cache whose timings give wait only, with an
\* integer and with a fractional time.
E_Sparse == [E_Plain EXCEPT !.response = Nil, !.timings = T_WaitOnly]
E_FloatSparse == [E_Sparse EXCEPT !.time = JFloat(1500)]

\* Entries that vary the time, the headers, the content and the timings.
E_NoRequest == [E_Plain EXCEPT !.request = Nil]
E_BadMethod ==
    [E_Plain EXCEPT !.time = JFloat(1500),
                    !.request = [ReqDoc(U_x, M_GET, <<>>) EXCEPT !.method = TextOther]]
E_StringTime == [E_Plain EXCEPT !.time = JString]
E_FloatPost == [PlainEntry(ReqDoc(U_xa, M_POST, <<>>)) EXCEPT !.time = JFloat(1500)]

\* A request with cookies, a query string, posted data and other sizes.
FullRequest ==
    [ReqDoc(U_xa, M_POST, SecretHeaders) EXCEPT
        !.httpVersion = "HTTP/2",
        !.cookies = << [Name |-> "session", Value |-> "secret"] >>,
        !.queryString = << [Name |-> "q", Value |-> "1"] >>,
        !.postData = [MimeType |-> "application/json", Text |-> "{}"],
        !.headersSize = 200,
        !.bodySize = 2]

\* An entry that starts half a second after a full second, with a cache
\* section and every part of the request filled in.
E_Full ==
    [E_Plain EXCEPT !.startedDateTime = [sec |-> 2, milli |-> 500],
                    !.cache = [present |-> TRUE],
                    !.timings = T_AllInt,
                    !.request = FullRequest,
                    !.response = ResponseDoc(SetCookieHeaders, ContentDoc(NoText, ""))]

\* Entries that carry fields outside the HAR model.
StringExt == [n \in EntryExtNames |-> "string"]
E_StringExt == [E_Plain EXCEPT !.ext = StringExt]
E_FloatStringExt == [E_FloatPost EXCEPT !.ext = StringExt]
E_NumberID == [E_Plain EXCEPT !.ext["_id"] = "number"]
E_NumberConnection == [E_Plain EXCEPT !.ext["connection"] = "number"]
E_FloatNumberConnection == [E_FloatPost EXCEPT !.ext["connection"] = "number"]
E_NumberPriority == [E_FloatPost EXCEPT !.ext["_priority"] = "number"]

ExtEntries ==
    { E_StringExt, E_FloatStringExt, E_NumberID, E_NumberConnection,
      E_FloatNumberConnection, E_NumberPriority }

\* Documents whose log carries browser, pages and comment.
ExtDocs ==
    { [HarDoc(<<e>>) EXCEPT !.ext = x] :
        e \in { E_Plain, E_FloatPost },
        x \in { [n \in LogExtNames |-> "string"],
                [NoLogExt EXCEPT !["browser"] = "number", !["pages"] = "number"],
                [NoLogExt EXCEPT !["comment"] = "number"] } }

FeatureEntries ==
    { [E_Plain EXCEPT !.timings = T_AllInt,
                      !.request = ReqDoc(U_xa, M_GET, SecretHeaders),
                      !.response = ResponseDoc(SetCookieHeaders, ContentDoc(NoText, ""))],
      E_Full, [E_Full EXCEPT !.time = JFloat(2500)],
      [E_Plain EXCEPT !.time = JFloat(256789), !.timings = T_AllFloat,
                      !.request = ReqDoc(U_xa, M_POST, SecretHeaders)],
      [E_Plain EXCEPT !.time = JFloat(123456), !.timings = T_ThreeFloat],
      [E_Plain EXCEPT !.timings = T_BlockedFloat],
      [E_Plain EXCEPT !.response = ResponseDoc(<<>>, ContentDoc(TextString(T_OkJSON), ""))],
      [E_Plain EXCEPT !.response = ResponseDoc(<<>>, ContentDoc(TextString(T_abcd), ""))],
      [E_Plain EXCEPT !.response =
          ResponseDoc(<<>>, ContentDoc(TextString(T_HelloWorldB64), "base64"))],
      [E_Plain EXCEPT !.response =
          ResponseDoc(<<>>, ContentDoc(TextString(T_OkJSON), "base64"))],
      [E_Plain EXCEPT !.time = JFloat(1500), !.response =
          ResponseDoc(<<>>, ContentDoc(TextString(T_HelloWorldB64), "base64"))],
      [E_Plain EXCEPT !.time = JFloat(1500), !.response =
          ResponseDoc(<<>>, ContentDoc(TextString(T_abcd), ""))],
      [E_Plain EXCEPT !.time = JFloat(-500), !.response = Nil],
      [E_Plain EXCEPT !.time = JFloat(1500), !.response = ResponseDoc(<<>>, Nil)],
      [E_Plain EXCEPT !.time = JFloat(1500), !.request = Nil],
      E_Sparse, E_FloatSparse,
      E_NoRequest, E_BadMethod, E_StringTime }

\* The documents: text that is no JSON, an object without a log, objects
\* whose log is given and then nulled, every
\* sequence of at most MaxEntries plain entries over the request shapes, each
\* feature entry alone, entries and logs with fields outside the HAR model,
\* documents with a null entry, and pairs that put an entry without a request next
\* to one with a request, a saved error before a hard one, and distinct
\* entries of which one has a float time.
Docs ==
    { SyntaxDoc, NoLogDoc, DupLogDoc(<<E_Plain>>), DupLogDoc(<<E_FloatPost>>) }
    \cup { HarDoc([k \in 1..Len(rs) |-> PlainEntry(rs[k])]) :
             rs \in SeqsUpTo(RequestShapes, MaxEntries) }
    \cup { HarDoc(<<f>>) : f \in FeatureEntries \cup ExtEntries }
    \cup ExtDocs
    \cup { HarDoc(<<Nil>>), HarDoc(<<E_Plain, Nil>>), HarDoc(<<E_FloatPost, Nil>>) }
    \cup { HarDoc(<<E_Plain, E_NoRequest>>), HarDoc(<<E_NoRequest, E_Plain>>),
           HarDoc(<<E_BadMethod, E_StringTime>>), HarDoc(<<E_StringTime, E_BadMethod>>),
           HarDoc(<<E_Plain, E_FloatPost>>), HarDoc(<<E_Plain, E_FloatPost, E_Plain>>) }

\* The sources a load can name.
Sources ==
    { FileSource(d) : d \in Docs }
    \cup { MissingFile, URLUnreachable,
           URLSource(200, HarDoc(<<E_Plain>>)), URLSource(200, SyntaxDoc),
           URLSource(203, HarDoc(<<E_Plain>>)), URLSource(404, SyntaxDoc) }

\* The (URL, method) pairs asked of get_request_ids.
QueryURLs == { U_x, U_xa, Str(<<"/","X","|","a">>) }
QueryMethods == { M_GET, M_POST, M_aGET, Str(<<"g","e","t">>) }

\* The request IDs asked of get_request_details.
QueryIDs ==
    { RequestID(i) : i \in 0..MaxEntries }
    \cup { Str(<<"i","n","v","a","l","i","d","_","i","d">>), IDPrefix,
           Str(<<"r","e","q","u","e","s","t","_","0","x">>),
           Str(<<"r","e","q","u","e","s","t","_","0","1">>),
           Str(<<"r","e","q","u","e","s","t","_","-","1">>),
           Str(<<"r","e","q","u","e","s","t","_","9","9","9">>),
           Str(<<"R","e","q","u","e","s","t","_","0">>) }

-----------------------------------------------------------------------------
(* The MCP server: HARServer and its tool handlers.                        *)

NoReply == [kind |-> "none"]
ToolResult(v) == [kind |-> "result", value |-> v]
ToolError(msg, cause) == [kind |-> "error", msg |-> msg, cause |-> cause]
\* The handler panicked: the process is gone and nothing is returned.
Crash == [kind |-> "crash"]

NoHARLoadedMsg == "No HAR file loaded. Please load a HAR file first using load_har."

\* No tool call is in flight: the load and the query are at rest, and prev is
\* what harData held before the last assignment.
NoCalls ==
    [load  |-> [pc |-> "idle", r |-> Nil, prev |-> Nil],
     query |-> [pc |-> "idle", tool |-> "none", arg |-> <<>>, raced |-> FALSE,
                from |-> Nil, out |-> NoReply]]

\* NewHARServer: no archive.
Init ==
    /\ harData = Nil
    /\ alive = TRUE
    /\ op = "none"
    /\ arg = <<>>
    /\ reply = NoReply
    /\ decoders = <<>>
    /\ superseded = FALSE
    /\ calls = NoCalls
    /\ fn = "none"
    /\ fnArg = <<>>
    /\ fnRes = Pending

\* ParseSource on every source of the model, computed once.
ParseSourceOf == [source \in Sources |-> ParseSource(source)]

\* A faulty variant of loadHAR that drops the current archive when the
\* source cannot be loaded.
loadHARClobber(current, r) ==
    IF r.err # Nil
    THEN [harData |-> Nil, err |-> [msg |-> "failed to load HAR", cause |-> r.err]]
    ELSE [harData |-> r.har, err |-> Nil]

\* A faulty variant of loadHAR that keeps the archive it already has.
loadHARKeepFirst(current, r) ==
    IF r.err # Nil
    THEN [harData |-> current, err |-> [msg |-> "failed to load HAR", cause |-> r.err]]
    ELSE [harData |-> IF current = Nil THEN r.har ELSE current, err |-> Nil]

\* loadHAR, given h.harData and what ParseSource returned: an error is wrapped
\* and returned with harData as it was; otherwise harData is assigned.
loadHAR(current, r) ==
    IF r.err # Nil
    THEN [harData |-> current, err |-> [msg |-> "failed to load HAR", cause |-> r.err]]
    ELSE [harData |-> r.har, err |-> Nil]

\* handleLoadHAR: the source is loaded; an error is returned as a tool error;
\* otherwise the reply counts the entries of h.harData, which panics when the
\* archive has no Log.  A panic inside ParseSource leaves harData alone.
handleLoadHAR ==
    /\ alive
    /\ \E source \in Sources :
          LET r == ParseSourceOf[source]
              loaded == loadHAR(harData, r)
          IN  /\ op' = "load_har"
              /\ arg' = source
              /\ decoders' = r.ran
              /\ IF r.panic
                 THEN alive' = FALSE /\ reply' = Crash /\ UNCHANGED harData
                 ELSE /\ harData' = loaded.harData
                      /\ IF loaded.err # Nil
                         THEN /\ reply' = ToolError("Error loading HAR file", loaded.err)
                              /\ UNCHANGED alive
                         ELSE /\ alive' = (loaded.harData.Log # Nil)
                              /\ reply' = IF loaded.harData.Log = Nil THEN Crash
                                          ELSE ToolResult(Len(loaded.harData.Log.Entries))
    /\ superseded' = (superseded \/ (harData # Nil /\ harData' # harData))
    /\ UNCHANGED <<calls, fn, fnArg, fnRes>>

\* A faulty variant of handleListURLsMethods without the check for a loaded
\* archive: with none it answers an empty list.
handleListURLsMethodsUnguarded ==
    /\ alive
    /\ op' = "list_urls_methods"
    /\ arg' = <<>>
    /\ IF harData = Nil
       THEN reply' = ToolResult(<<>>) /\ UNCHANGED alive
       ELSE IF GetURLsAndMethods(harData).panic
       THEN alive' = FALSE /\ reply' = Crash
       ELSE /\ \E result \in GetURLsAndMethods(harData).results :
                  reply' = ToolResult(result)
            /\ UNCHANGED alive
    /\ UNCHANGED <<harData, decoders, superseded, calls, fn, fnArg, fnRes>>

\* handleListURLsMethods
handleListURLsMethods ==
    /\ alive
    /\ op' = "list_urls_methods"
    /\ arg' = <<>>
    /\ IF harData = Nil
       THEN reply' = ToolError(NoHARLoadedMsg, Nil) /\ UNCHANGED alive
       ELSE IF GetURLsAndMethods(harData).panic
       THEN alive' = FALSE /\ reply' = Crash
       ELSE /\ \E result \in GetURLsAndMethods(harData).results :
                  reply' = ToolResult(result)
            /\ UNCHANGED alive
    /\ UNCHANGED <<harData, decoders, superseded, calls, fn, fnArg, fnRes>>

\* handleGetRequestIDs
handleGetRequestIDs ==
    /\ alive
    /\ \E url \in QueryURLs, method \in QueryMethods :
          /\ op' = "get_request_ids"
          /\ arg' = <<url, method>>
          /\ IF harData = Nil
             THEN reply' = ToolError(NoHARLoadedMsg, Nil) /\ UNCHANGED alive
             ELSE IF GetRequestIDsForURLMethod(harData, url, method).panic
             THEN alive' = FALSE /\ reply' = Crash
             ELSE /\ reply' = ToolResult(GetRequestIDsForURLMethod(harData, url, method).ids)
                  /\ UNCHANGED alive
    /\ UNCHANGED <<harData, decoders, superseded, calls, fn, fnArg, fnRes>>

\* handleGetRequestDetails
handleGetRequestDetails ==
    /\ alive
    /\ \E requestID \in QueryIDs :
          /\ op' = "get_request_details"
          /\ arg' = requestID
          /\ IF harData = Nil
             THEN reply' = ToolError(NoHARLoadedMsg, Nil) /\ UNCHANGED <<alive, harData>>
             ELSE LET r == GetRequestDetails(harData, requestID)
                  IN  /\ harData' = r.har
                      /\ IF r.panic THEN alive' = FALSE /\ reply' = Crash
                         ELSE IF r.details = Nil
                         THEN /\ reply' = ToolError("Error getting request details",
                                                    [msg |-> r.err, cause |-> Nil])
                              /\ UNCHANGED alive
                         ELSE reply' = ToolResult(r.details) /\ UNCHANGED alive
    /\ UNCHANGED <<decoders, superseded, calls, fn, fnArg, fnRes>>

Next ==
    \/ handleLoadHAR
    \/ handleListURLsMethods
    \/ handleGetRequestIDs
    \/ handleGetRequestDetails

Spec == Init /\ [][Next]_vars

-----------------------------------------------------------------------------
(* Pure-function checks: the function is applied to a drawn input.         *)

ServerIdle ==
    /\ harData = Nil
    /\ alive = TRUE
    /\ op = "none"
    /\ arg = <<>>
    /\ reply = NoReply
    /\ decoders = <<>>
    /\ superseded = FALSE
    /\ calls = NoCalls

InitFn ==
    /\ ServerIdle
    /\ fnRes = Pending
    /\ \/ fn = "redactAuthHeaders" /\ fnArg \in SeqsUpTo(Headers, MaxHeaders)
       \/ fn = "UnmarshalJSON" /\ fnArg \in [field : FlexibleTimeFields, data : TimeValues]
       \/ fn = "ToStandardContent" /\ fnArg \in FlexibleContents
       \/ fn = "Parse" /\ fnArg \in Docs

\* redactAuthHeaders is called on a slice: fnArg is the caller's slice, before
\* and after the call.
ApplyRedact ==
    /\ fn = "redactAuthHeaders"
    /\ fnRes = Pending
    /\ fnRes' = Done(redactAuthHeaders(fnArg))
    /\ fnArg' = redactAuthHeadersCall(fnArg).headers
    /\ UNCHANGED <<harData, alive, op, arg, reply, decoders, superseded, calls, fn>>

\* redactAuthHeaders is called on the slice a first call returned: fnArg is
\* that slice and fnRes what the second call returns.
ApplyRedactAgain ==
    /\ fn = "redactAuthHeaders"
    /\ fnRes # Pending
    /\ fn' = "redactAuthHeaders again"
    /\ fnArg' = fnRes.val
    /\ fnRes' = Done(redactAuthHeaders(fnRes.val))
    /\ UNCHANGED <<harData, alive, op, arg, reply, decoders, superseded, calls>>

\* The decoder calls UnmarshalJSON for the value of a FlexibleTime field.
ApplyUnmarshalJSON ==
    /\ fn = "UnmarshalJSON"
    /\ fnRes = Pending
    /\ fnArg.field \in FlexibleTimeFields
    /\ fnRes' = Done(UnmarshalJSON(fnArg.data))
    /\ UNCHANGED <<harData, alive, op, arg, reply, decoders, superseded, calls, fn, fnArg>>

ApplyToStandardContent ==
    /\ fn = "ToStandardContent"
    /\ fnRes = Pending
    /\ fnRes' = Done(ToStandardContent(fnArg))
    /\ UNCHANGED <<harData, alive, op, arg, reply, decoders, superseded, calls, fn, fnArg>>

ApplyParse ==
    /\ fn = "Parse"
    /\ fnRes = Pending
    /\ fnRes' = Done(Parse(fnArg))
    /\ UNCHANGED <<harData, alive, op, arg, reply, decoders, superseded, calls, fn, fnArg>>

NextFn ==
    \/ ApplyRedactAgain
    \/ ApplyRedact
    \/ ApplyUnmarshalJSON
    \/ ApplyToStandardContent
    \/ ApplyParse

SpecFn == InitFn /\ [][NextFn]_vars

-----------------------------------------------------------------------------
(* Concurrent dispatch: a load_har call and a query call whose handlers run *)
(* in two goroutines.  HARServer.harData is read and written without a lock *)
(* or an atomic, so a handler is split at its accesses to the field.        *)

\* The sources loaded and the queries asked while calls overlap.
ConcSources ==
    { FileSource(SyntaxDoc), FileSource(HarDoc(<<>>)), FileSource(HarDoc(<<E_Plain>>)),
      FileSource(HarDoc(<<E_Plain, E_FloatPost>>)) }

ConcQueries ==
    { [tool |-> "list_urls_methods", arg |-> <<>>],
      [tool |-> "get_request_ids", arg |-> <<U_xa, M_GET>>],
      [tool |-> "get_request_details", arg |-> RequestID(1)] }

\* What a goroutine can see of an archive that another goroutine built and
\* stored in harData with no synchronisation in between: nothing orders the
\* writes that built it before the reads, so each word read is its zero value
\* or any value written so far: the whole archive, an archive whose Log is
\* still nil, or one whose Entries are as they were after k appends.
Views(har) ==
    { har, [Log |-> Nil] }
    \cup { [Log |-> [Entries |-> SubSeq(har.Log.Entries, 1, k)]] :
             k \in 0..Len(har.Log.Entries) }

\* What the handler of a query returns when the parser is given this archive.
AnswersOf(tool, a, har) ==
    CASE tool = "list_urls_methods" ->
            IF GetURLsAndMethods(har).panic THEN { Crash }
            ELSE { ToolResult(result) : result \in GetURLsAndMethods(har).results }
      [] tool = "get_request_ids" ->
            IF GetRequestIDsForURLMethod(har, a[1], a[2]).panic THEN { Crash }
            ELSE { ToolResult(GetRequestIDsForURLMethod(har, a[1], a[2]).ids) }
      [] OTHER ->
            LET r == GetRequestDetails(har, a)
            IN  IF r.panic THEN { Crash }
                ELSE IF r.details = Nil
                THEN { ToolError("Error getting request details",
                                 [msg |-> r.err, cause |-> Nil]) }
                ELSE { ToolResult(r.details) }

\* handleLoadHAR up to the return of ParseSource in loadHAR: the document is
\* fetched and parsed into a local variable.
BeginLoad ==
    /\ alive
    /\ calls.load.pc = "idle"
    /\ \E source \in ConcSources :
          calls' = [calls EXCEPT !.load.pc = "parsed",
                                 !.load.r = [source |-> source,
                                             result |-> ParseSourceOf[source]]]
    /\ UNCHANGED <<harData, alive, op, arg, reply, decoders, superseded, fn, fnArg, fnRes>>

\* loadHAR after ParseSource: an error is returned through handleLoadHAR;
\* otherwise h.harData is assigned.  A query in flight races with the write.
AssignLoad ==
    /\ alive
    /\ calls.load.pc = "parsed"
    /\ LET r == calls.load.r.result
       IN  IF r.err # Nil
           THEN /\ op' = "load_har"
                /\ arg' = calls.load.r.source
                /\ decoders' = r.ran
                /\ reply' = ToolError("Error loading HAR file",
                                      loadHAR(harData, r).err)
                /\ calls' = [calls EXCEPT !.load.pc = "idle", !.load.r = Nil]
                /\ UNCHANGED <<harData, superseded>>
           ELSE /\ harData' = loadHAR(harData, r).harData
                /\ superseded' = (superseded \/ (harData # Nil /\ harData' # harData))
                /\ calls' = [calls EXCEPT
                      !.load.pc = "assigned",
                      !.load.prev = harData,
                      !.query.raced = (@ \/ calls.query.pc = "checked")]
                /\ UNCHANGED <<op, arg, reply, decoders>>
    /\ UNCHANGED <<alive, fn, fnArg, fnRes>>

\* handleLoadHAR after loadHAR: the success message with the entry count.
ReturnLoad ==
    /\ alive
    /\ calls.load.pc = "assigned"
    /\ op' = "load_har"
    /\ arg' = calls.load.r.source
    /\ decoders' = calls.load.r.result.ran
    /\ reply' = ToolResult(Len(harData.Log.Entries))
    /\ calls' = [calls EXCEPT !.load.pc = "idle", !.load.r = Nil]
    /\ UNCHANGED <<harData, alive, superseded, fn, fnArg, fnRes>>

\* The values a read of h.harData can return: the value last written, and
\* for a read that races with the write also the value before it.
PointerReads(raced) ==
    IF raced THEN { harData, calls.load.prev } ELSE { harData }

\* A query handler up to its check h.harData == nil: with nil read it answers
\* that no archive is loaded.  The call races with a load that has assigned
\* and not yet returned.
CheckQuery ==
    /\ alive
    /\ calls.query.pc = "idle"
    /\ \E q \in ConcQueries, seen \in PointerReads(calls.load.pc = "assigned") :
          calls' = [calls EXCEPT !.query =
              IF seen = Nil
              THEN [pc |-> "computed", tool |-> q.tool, arg |-> q.arg,
                    raced |-> calls.load.pc = "assigned", from |-> Nil,
                    out |-> ToolError(NoHARLoadedMsg, Nil)]
              ELSE [pc |-> "checked", tool |-> q.tool, arg |-> q.arg,
                    raced |-> calls.load.pc = "assigned", from |-> Nil,
                    out |-> NoReply]]
    /\ UNCHANGED <<harData, alive, op, arg, reply, decoders, superseded, fn, fnArg, fnRes>>

\* The query handler reads h.harData again and hands it to the parser, which
\* computes the answer from what it sees of that archive.  The read does not
\* go back to nil; an archive assigned by a racing load is seen in part.
ComputeQuery ==
    /\ alive
    /\ calls.query.pc = "checked"
    /\ \E seen \in PointerReads(calls.query.raced) \ { Nil } :
       \E view \in (IF calls.query.raced /\ seen = harData
                    THEN Views(seen) ELSE { seen }) :
       \E out \in AnswersOf(calls.query.tool, calls.query.arg, view) :
          calls' = [calls EXCEPT !.query.pc = "computed",
                                 !.query.from = view,
                                 !.query.out = out]
    /\ UNCHANGED <<harData, alive, op, arg, reply, decoders, superseded, fn, fnArg, fnRes>>

\* The query handler returns, or the process is gone with its panic.
ReturnQuery ==
    /\ alive
    /\ calls.query.pc = "computed"
    /\ op' = calls.query.tool
    /\ arg' = calls.query.arg
    /\ reply' = calls.query.out
    /\ alive' = (calls.query.out # Crash)
    /\ calls' = [calls EXCEPT !.query = NoCalls.query]
    /\ UNCHANGED <<harData, decoders, superseded, fn, fnArg, fnRes>>

NextConc ==
    \/ BeginLoad
    \/ AssignLoad
    \/ ReturnLoad
    \/ CheckQuery
    \/ ComputeQuery
    \/ ReturnQuery

SpecConc == Init /\ [][NextConc]_vars

-----------------------------------------------------------------------------
(* Claims about the redaction filter.                                      *)

\* Two names are equal up to the case of their ASCII letters.
EqualFold(a, b) ==
    /\ Len(a) = Len(b)
    /\ \A i \in 1..Len(a) :
          \/ a[i] = b[i]
          \/ a[i] >= 65 /\ a[i] <= 90 /\ b[i] = a[i] + 32
          \/ b[i] >= 65 /\ b[i] <= 90 /\ a[i] = b[i] + 32

IsDocumentedSensitive(name) == \E d \in DocumentedNames : EqualFold(name, d)

\* C1: redact(headers) has the length and order of its input, keeps every
\* name as captured, and a value is the sentinel exactly for the names that
\* equal, up to case, one of the six documented names; every other value is
\* the input's.
C1_RedactContract ==
    (fn = "redactAuthHeaders" /\ fnRes.done) =>
        /\ Len(fnRes.val) = Len(fnArg)
        /\ \A i \in 1..Len(fnArg) :
              /\ fnRes.val[i].Name = fnArg[i].Name
              /\ IsDocumentedSensitive(fnArg[i].Name) => fnRes.val[i].Value = Sentinel
              /\ ~IsDocumentedSensitive(fnArg[i].Name) =>
                    fnRes.val[i].Value = fnArg[i].Value

\* A list mixing a sensitive name in another case with an unrelated header
\* has been redacted.
C1_Witness ==
    /\ fn = "redactAuthHeaders"
    /\ fnRes.done
    /\ Len(fnArg) = 2
    /\ fnArg[1].Name = Str(<<"A","U","T","H","O","R","I","Z","A","T","I","O","N">>)
    /\ fnArg[1].Value = "secret"
    /\ fnRes.val[1].Value = Sentinel
    /\ fnArg[2].Name = N_UserAgent
    /\ fnRes.val[2].Value = "Mozilla/5.0"

-----------------------------------------------------------------------------
(* Claims about the tolerant decoder's numeric coercion.                   *)

-----------------------------------------------------------------------------
(* Claims about tolerant content decoding.                                 *)

\* The character of the standard alphabet for a 6-bit value.
B64Char(v) ==
    CASE v < 26 -> 65 + v
      [] v < 52 -> 71 + v
      [] v < 62 -> v - 4
      [] v = 62 -> 43
      [] OTHER  -> 47

RECURSIVE EncodeToString(_)
\* The padded standard base64 encoding of a byte sequence.
EncodeToString(b) ==
    IF Len(b) = 0 THEN <<>>
    ELSE LET n == IF Len(b) >= 3 THEN 3 ELSE Len(b)
             v == b[1] * 65536 + (IF n >= 2 THEN b[2] * 256 ELSE 0)
                  + (IF n >= 3 THEN b[3] ELSE 0)
             c1 == B64Char(v \div 262144)
             c2 == B64Char((v \div 4096) % 64)
             c3 == IF n >= 2 THEN B64Char((v \div 64) % 64) ELSE 61
             c4 == IF n >= 3 THEN B64Char(v % 64) ELSE 61
         IN  <<c1, c2, c3, c4>> \o EncodeToString(SubSeq(b, n + 1, Len(b)))

\* The number of '=' that end t.
Padding(t) ==
    IF Len(t) >= 2 /\ t[Len(t)] = 61 /\ t[Len(t) - 1] = 61 THEN 2
    ELSE IF Len(t) >= 1 /\ t[Len(t)] = 61 THEN 1 ELSE 0

\* t has the shape of padded standard base64: whole quanta of alphabet
\* characters, the last one ending with at most two '='.
IsBase64(t) ==
    /\ Len(t) % 4 = 0
    /\ \A i \in 1..(Len(t) - Padding(t)) : B64Val(t[i]) >= 0

\* b is what t encodes: encoding b gives t back, up to the unused low bits of
\* the last character before the padding.
Encodes(t, b) ==
    LET e == EncodeToString(b)
    IN  /\ Len(e) = Len(t)
        /\ \A i \in 1..Len(t) :
              e[i] = t[i] \/ (Padding(t) > 0 /\ i = Len(t) - Padding(t))

\* The body and tag that the cases of tolerant content decoding give for a
\* text and an encoding tag.
ResolvedAs(text, encoding, c) ==
    /\ c # Nil
    /\ c.Encoding = encoding
    /\ text.kind = "absent" => c.Text = <<>>
    /\ text.kind = "string" =>
          IF encoding = "base64" /\ IsBase64(text.bytes)
          THEN Encodes(text.bytes, c.Text)
          ELSE c.Text = text.bytes

\* Every time-like value of the document is a number, null or absent,
\* every method is a string and no field outside the HAR model is a number:
\* nothing but content can trouble the decoder.
OnlyContentVaries(doc) ==
    /\ doc.kind = "har"
    /\ \A n \in LogExtNames : doc.ext[n] # "number"
    /\ \A k \in 1..Len(doc.entries) :
          LET e == doc.entries[k]
          IN  /\ e # Nil
              /\ \A n \in EntryExtNames : e.ext[n] # "number"
              /\ e.time.kind \in {"number", "null", "absent"}
              /\ e.request # Nil => e.request.method.kind = "string"
              /\ e.timings # Nil =>
                    \A p \in PhaseSet : e.timings[p].kind \in {"number", "null", "absent"}

\* C8: tolerant content decoding resolves the body by cases: text absent,
\* empty; a string tagged "base64" that is valid base64, the bytes it encodes;
\* a string tagged "base64" that is not valid base64, the bytes of the string
\* itself; any other string, its bytes; the encoding tag of the input is kept
\* in every case (a nil content stays nil).  No content makes the parse fail,
\* and the contents of an archive that the tolerant decoder produced are
\* resolved so.
C8_ContentCases ==
    /\ (fn = "ToStandardContent" /\ fnRes.done) =>
          IF fnArg = Nil THEN fnRes.val = Nil
          ELSE /\ ResolvedAs(fnArg.Text, fnArg.Encoding, fnRes.val)
               /\ fnRes.val.Size = fnArg.Size
               /\ fnRes.val.MimeType = fnArg.MimeType
    /\ (fn = "Parse" /\ fnRes.done /\ OnlyContentVaries(fnArg)) =>
          /\ fnRes.val.err = Nil
          /\ fnRes.val.ran = <<"strict", "tolerant">> =>
                \A k \in 1..Len(fnArg.entries) :
                   LET r == fnArg.entries[k].response
                       R == fnRes.val.har.Log.Entries[k].Response
                   IN  IF r = Nil THEN R = Nil
                       ELSE IF r.content = Nil THEN R.Content = Nil
                       ELSE ResolvedAs(r.content.text, r.content.encoding, R.Content)

\* A document whose content is tagged "base64" but is not base64 has been
\* parsed by the tolerant decoder, and the body is the text itself.
C8_Witness ==
    /\ fn = "Parse"
    /\ fnRes.done
    /\ fnArg = HarDoc(<<[E_Plain EXCEPT !.response =
                   ResponseDoc(<<>>, ContentDoc(TextString(T_OkJSON), "base64"))]>>)
    /\ fnRes.val.err = Nil
    /\ fnRes.val.ran = <<"strict", "tolerant">>
    /\ fnRes.val.har.Log.Entries[1].Response.Content.Text = T_OkJSON
    /\ fnRes.val.har.Log.Entries[1].Response.Content.Encoding = "base64"

-----------------------------------------------------------------------------
(* Claims about the archive parser.                                        *)

\* C3: Parse runs the strict decoder first; if it accepts, its archive is the
\* result and the tolerant decoder is not run; if it rejects, the tolerant
\* decoder runs on the same document and its converted result is returned;
\* so Parse succeeds exactly when one of the two decoders accepts.
\* Violated by a document that gives "log" with a float time and then
\* "log": null: the strict decoder rejects it, the tolerant decoder accepts
\* it with a nil log, and ToStandardHAR dereferences that log.
C3_StrictThenTolerant ==
    (fn = "Parse" /\ fnRes.done) =>
        LET r == fnRes.val
            strictOK == StrictDecode(fnArg).err = Nil
            tolerantOK == TolerantDecode(fnArg).err = Nil
        IN  /\ Len(r.ran) >= 1 /\ r.ran[1] = "strict"
            /\ strictOK =>
                  r.ran = <<"strict">> /\ r.err = Nil /\ r.har = StrictDecode(fnArg).har
            /\ ~strictOK => r.ran = <<"strict", "tolerant">>
            /\ (~strictOK /\ tolerantOK) =>
                  /\ r.err = Nil
                  /\ ~r.panic
                  /\ r.har = ToStandardHAR(TolerantDecode(fnArg).har).har
            /\ (r.err = Nil /\ ~r.panic) <=> (strictOK \/ tolerantOK)

\* C4: when both decoders reject the document, Parse returns a nil archive
\* together with the error "failed to parse HAR file" whose cause is the
\* tolerant decoder's error, not the strict decoder's.
C4_BothRejectTolerantCause ==
    (fn = "Parse" /\ fnRes.done
        /\ StrictDecode(fnArg).err # Nil /\ TolerantDecode(fnArg).err # Nil) =>
        /\ fnRes.val.har = Nil
        /\ fnRes.val.err # Nil
        /\ fnRes.val.err.msg = ParseErrorMsg
        /\ fnRes.val.err.cause = TolerantDecode(fnArg).err
        /\ (fnArg = HarDoc(<<E_BadMethod>>)) =>
              fnRes.val.err.cause = TypeError(0, "method", "string", FALSE)

\* A document with a float time and a method that is no string has been
\* rejected: the strict decoder's error is about the time, the cause returned
\* is the tolerant decoder's, about the method.
C4_Witness ==
    /\ fn = "Parse"
    /\ fnRes.done
    /\ fnArg = HarDoc(<<E_BadMethod>>)
    /\ StrictDecode(fnArg).err = TypeError(0, "time", "int64", FALSE)
    /\ fnRes.val.har = Nil
    /\ fnRes.val.err.cause = TypeError(0, "method", "string", FALSE)

\* The whole milliseconds of a JSON value given for a phase: zero when the
\* phase is absent, else the value truncated toward zero.
WholeMillis(j) ==
    IF j.kind # "number" THEN 0
    ELSE IF j.milli >= 0 THEN j.milli \div 1000 ELSE -((-j.milli) \div 1000)

\* The field of the canonical Timings that holds a phase.
PhaseField(p) ==
    CASE p = "blocked" -> "Blocked"
      [] p = "dns"     -> "DNS"
      [] p = "connect" -> "Connect"
      [] p = "send"    -> "Send"
      [] p = "wait"    -> "Wait"
      [] p = "receive" -> "Receive"
      [] OTHER         -> "SSL"

\* C6: the Timings of every entry of the parsed archive carry each of the
\* seven phases with the truncated value the document gives (zero for an
\* absent phase).
C6_SevenPhasesCarried ==
    (fn = "Parse" /\ fnRes.done /\ fnArg.kind = "har" /\ fnRes.val.err = Nil) =>
        \A k \in 1..Len(fnArg.entries) :
            (fnArg.entries[k] # Nil /\ fnArg.entries[k].timings # Nil) =>
                LET T == fnRes.val.har.Log.Entries[k].Timings
                IN  /\ T # Nil
                    /\ \A p \in PhaseSet :
                          /\ PhaseField(p) \in DOMAIN T
                          /\ T[PhaseField(p)] = WholeMillis(fnArg.entries[k].timings[p])

\* C7: in an archive that Parse returned, from either decoder, a content
\* whose text is a string and that has no encoding tag has the bytes of that
\* string as its body.
C7_UntaggedTextUnchanged ==
    (fn = "Parse" /\ fnRes.done /\ fnArg.kind = "har" /\ fnRes.val.err = Nil) =>
        \A k \in 1..Len(fnArg.entries) :
            LET r == IF fnArg.entries[k] = Nil THEN Nil ELSE fnArg.entries[k].response
            IN  (r # Nil /\ r.content # Nil /\ r.content.text.kind = "string"
                    /\ r.content.encoding = "") =>
                   fnRes.val.har.Log.Entries[k].Response.Content.Text
                      = r.content.text.bytes

-----------------------------------------------------------------------------
(* Claims about the server's replies.                                      *)

\* The redacted value stands in a header of the reply where the archive's
\* header at the same place has a documented sensitive name and another value.
Withheld(returned, captured) ==
    /\ Len(returned) = Len(captured)
    /\ \A k \in 1..Len(captured) :
          IsDocumentedSensitive(captured[k].Name) =>
              \/ returned[k].Value # captured[k].Value
              \/ captured[k].Value = Sentinel

\* C2: in the details get_request_details returns for a valid ID, no header
\* of the request and no header of the response whose name is one of the six
\* documented names carries the value the archive captured.
\* Violated: the response is returned as captured, Set-Cookie included.
C2_NoSensitiveHeaderValue ==
    (op = "get_request_details" /\ reply.kind = "result") =>
        LET entry == harData.Log.Entries[Sscanf(arg).index + 1]
        IN  /\ Withheld(reply.value.Request.Headers, entry.Request.Headers)
            /\ entry.Response # Nil =>
                  /\ reply.value.Response # Nil
                  /\ Withheld(reply.value.Response.Headers, entry.Response.Headers)

\* The entries of the loaded archive, and the place (1-based) of an ID in a
\* group of a list_urls_methods reply.
Entries == harData.Log.Entries

InGroup(i, group) ==
    \E j \in 1..Len(group.RequestIDs) : group.RequestIDs[j] = RequestID(i - 1)

SamePair(a, b) == a.URL = b.URL /\ a.Method = b.Method

\* C9: list_urls_methods partitions the entries by the exact (URL, method)
\* pair: an entry with a request is in exactly one group, whose URL and
\* method are the entry's; two entries share a group exactly when their URLs
\* and their methods are equal; no two groups have the same pair; an entry
\* without a request is in no group.
\* Violated: the map key joins URL and method with "|", so URL "/x|a" with
\* method "GET" and URL "/x" with method "a|GET" fall into one group.
C9_PartitionByExactPair ==
    (op = "list_urls_methods" /\ reply.kind = "result") =>
        LET groups == reply.value
            G == 1..Len(groups)
            withRequest == { i \in 1..Len(Entries) : Entries[i].Request # Nil }
        IN  /\ \A i \in withRequest :
                  /\ Cardinality({ g \in G : InGroup(i, groups[g]) }) = 1
                  /\ \A g \in G : InGroup(i, groups[g]) =>
                        SamePair(groups[g], Entries[i].Request)
            /\ \A i, j \in withRequest :
                  (\E g \in G : InGroup(i, groups[g]) /\ InGroup(j, groups[g]))
                      <=> SamePair(Entries[i].Request, Entries[j].Request)
            /\ \A g, h \in G : SamePair(groups[g], groups[h]) => g = h
            /\ \A i \in (1..Len(Entries)) \ withRequest :
                  \A g \in G : ~InGroup(i, groups[g])

RECURSIVE DecimalValue(_)
\* The number a run of decimal digits writes; -1 when it is not one.
DecimalValue(ds) ==
    IF Len(ds) = 0 THEN 0
    ELSE LET d == ds[Len(ds)]
             rest == DecimalValue(SubSeq(ds, 1, Len(ds) - 1))
         IN  IF d < 48 \/ d > 57 \/ rest < 0 THEN -1 ELSE rest * 10 + (d - 48)

\* The index an identifier names: it is "request_" followed by the decimal
\* writing, without sign, blank or leading zero, of the index; -1 otherwise.
IndexOfID(id) ==
    LET prefix == <<114, 101, 113, 117, 101, 115, 116, 95>>
        digits == SubSeq(id, 9, Len(id))
    IN  IF Len(id) < 9 \/ SubSeq(id, 1, 8) # prefix THEN -1
        ELSE IF Len(digits) > 1 /\ digits[1] = 48 THEN -1
        ELSE DecimalValue(digits)

\* The entry of the document at place k became the entry of the archive at
\* place k: the request, its pair and the truncated time are the document's;
\* a null entry became a nil entry or an entry without a request.
SameEntry(parsed, written) ==
    IF written = Nil THEN parsed = Nil \/ parsed.Request = Nil
    ELSE /\ parsed # Nil
         /\ (parsed.Request = Nil) <=> (written.request = Nil)
         /\ parsed.Request # Nil =>
               /\ parsed.Request.URL = written.request.url
               /\ parsed.Request.Method = written.request.method.bytes
         /\ written.time.kind = "number" =>
               parsed.Time = (IF written.time.milli >= 0
                              THEN written.time.milli \div 1000
                              ELSE -((-written.time.milli) \div 1000))

\* C10: the archive a load yields has the entries of the document, as many
\* and in the same order, whichever decoder accepted it; the identifiers in a
\* group of list_urls_methods are "request_" followed by the decimal
\* zero-based index of an entry with a request, in strictly ascending index
\* order, the group carrying the pair of its first entry, and every entry
\* with a request is named once; get_request_ids names, in ascending order,
\* exactly the indices of the entries with the asked pair.
C10_PositionalIDs ==
    /\ (op = "load_har" /\ reply.kind = "result" /\ arg.body.kind = "har") =>
          /\ Len(Entries) = Len(arg.body.entries)
          /\ reply.value = Len(arg.body.entries)
          /\ \A k \in 1..Len(Entries) : SameEntry(Entries[k], arg.body.entries[k])
    /\ (op = "list_urls_methods" /\ reply.kind = "result") =>
          LET groups == reply.value
              idx(g, j) == IndexOfID(groups[g].RequestIDs[j])
          IN  /\ \A g \in 1..Len(groups) :
                    /\ Len(groups[g].RequestIDs) >= 1
                    /\ \A j \in 1..Len(groups[g].RequestIDs) :
                          /\ idx(g, j) \in 0..(Len(Entries) - 1)
                          /\ Entries[idx(g, j) + 1].Request # Nil
                          /\ j > 1 => idx(g, j - 1) < idx(g, j)
                    /\ SamePair(groups[g], Entries[idx(g, 1) + 1].Request)
              /\ \A i \in 1..Len(Entries) : Entries[i].Request # Nil =>
                    Cardinality({ <<g, j>> \in (1..Len(groups)) \X (1..Len(Entries)) :
                                    /\ j <= Len(groups[g].RequestIDs)
                                    /\ idx(g, j) = i - 1 }) = 1
    /\ (op = "get_request_ids" /\ reply.kind = "result") =>
          LET ids == reply.value
              asked == [URL |-> arg[1], Method |-> arg[2]]
          IN  /\ \A j \in 1..Len(ids) :
                    /\ IndexOfID(ids[j]) \in 0..(Len(Entries) - 1)
                    /\ j > 1 => IndexOfID(ids[j - 1]) < IndexOfID(ids[j])
              /\ \A i \in 1..Len(Entries) :
                    (\E j \in 1..Len(ids) : IndexOfID(ids[j]) = i - 1)
                        <=> (Entries[i].Request # Nil /\ SamePair(Entries[i].Request, asked))

\* The document [GET, POST (float time), GET] on one URL went through the
\* tolerant decoder and has been listed: the GET group names request_0 and
\* request_2, the POST group request_1.
C10_Witness ==
    /\ op = "list_urls_methods"
    /\ reply.kind = "result"
    /\ harData = ParseSourceOf[FileSource(HarDoc(<<E_Plain, E_FloatPost, E_Plain>>))].har
    /\ StrictDecode(HarDoc(<<E_Plain, E_FloatPost, E_Plain>>)).err # Nil
    /\ Len(reply.value) = 2
    /\ \E g, h \in 1..2 :
          /\ reply.value[g].Method = M_GET
          /\ reply.value[g].RequestIDs =
                << Str(<<"r","e","q","u","e","s","t","_","0">>),
                   Str(<<"r","e","q","u","e","s","t","_","2">>) >>
          /\ reply.value[h].Method = M_POST
          /\ reply.value[h].RequestIDs = << Str(<<"r","e","q","u","e","s","t","_","1">>) >>

-----------------------------------------------------------------------------
(* Claims about the queries.                                               *)

RECURSIVE MatchingIDs(_, _, _)
\* The identifiers, in ascending index order, of the first n entries whose
\* request has the asked URL and the asked method.
MatchingIDs(n, url, method) ==
    IF n = 0 THEN <<>>
    ELSE LET e == Entries[n]
             earlier == MatchingIDs(n - 1, url, method)
         IN  IF e # Nil /\ e.Request # Nil /\ e.Request.URL = url
                /\ e.Request.Method = method
             THEN Append(earlier, <<114, 101, 113, 117, 101, 115, 116, 95>>
                                     \o FormatInt(n - 1))
             ELSE earlier

\* C11: on a loaded archive get_request_ids returns exactly the identifiers of
\* the entries whose request has the asked URL and the asked method, in
\* ascending index order, and an empty result, not an error, when no entry
\* matches.
\* Violated: on an archive with a nil entry (a null element of "entries" on
\* the strict path) the loop reads entry.Request and the call panics.
C11_FindIDsExact ==
    (op = "get_request_ids" /\ harData # Nil) =>
        /\ reply.kind = "result"
        /\ reply.value = MatchingIDs(Len(Entries), arg[1], arg[2])

\* A string of the shape request_<integer>: the prefix, an optional sign, one
\* or more decimal digits, and nothing else.
HasIDShape(id) ==
    /\ Len(id) > 8
    /\ SubSeq(id, 1, 8) = <<114, 101, 113, 117, 101, 115, 116, 95>>
    /\ LET rest == SubSeq(id, 9, Len(id))
           digits == IF rest[1] \in {43, 45} THEN Tail(rest) ELSE rest
       IN  /\ Len(digits) >= 1
           /\ \A k \in 1..Len(digits) : digits[k] \in 48..57

\* The integer a string of that shape writes.
IntegerOfID(id) ==
    LET rest == SubSeq(id, 9, Len(id))
    IN  IF rest[1] = 45 THEN -DecimalValue(Tail(rest))
        ELSE IF rest[1] = 43 THEN DecimalValue(Tail(rest))
        ELSE DecimalValue(rest)

InvalidIDReply ==
    ToolError("Error getting request details", [msg |-> InvalidIDMsg, cause |-> Nil])

OutOfRangeReply ==
    ToolError("Error getting request details", [msg |-> OutOfRangeMsg, cause |-> Nil])

\* C12: get_request_details on a loaded archive fails with "invalid request
\* ID format" for every string that is not of the shape request_<integer>,
\* and resolves no such string to an entry.
\* Violated: Sscanf stops reading after the number, so "request_0x" is taken
\* as index 0.
C12_InvalidIDRejected ==
    (op = "get_request_details" /\ harData # Nil /\ ~HasIDShape(arg)) =>
        reply = InvalidIDReply

\* C13: for an identifier request_<n>, get_request_details on a loaded
\* archive fails with "request ID out of range" whenever n is negative or at
\* least the number of entries, and gives details only when n is an index of
\* the entries.
C13_OutOfRangeRejected ==
    (op = "get_request_details" /\ harData # Nil /\ HasIDShape(arg)) =>
        LET n == IntegerOfID(arg)
        IN  /\ (n < 0 \/ n >= Len(Entries)) => reply = OutOfRangeReply
            /\ reply.kind = "result" => (0 <= n /\ n < Len(Entries))

\* request_1 has been asked of an archive of one entry: the reply is the
\* out-of-range error.
C13_Witness ==
    /\ op = "get_request_details"
    /\ harData # Nil
    /\ Len(Entries) = 1
    /\ arg = <<114, 101, 113, 117, 101, 115, 116, 95, 49>>
    /\ reply = OutOfRangeReply

\* The instant an RFC 3339 text of the details names.
InstantOfText(text) == [sec |-> text.sec, milli |-> 0]

\* The details are the entry with nothing changed but the request headers.
ProjectionOf(d, e) ==
    /\ InstantOfText(d.StartedDateTime) = e.StartedDateTime
    /\ d.Time.float64 = e.Time
    /\ d.Request.Method = e.Request.Method
    /\ d.Request.URL = e.Request.URL
    /\ d.Request.HTTPVersion = e.Request.HTTPVersion
    /\ d.Request.Cookies = e.Request.Cookies
    /\ d.Request.QueryString = e.Request.QueryString
    /\ d.Request.PostData = e.Request.PostData
    /\ d.Request.HeadersSize = e.Request.HeadersSize
    /\ d.Request.BodySize = e.Request.BodySize
    /\ d.Request.Headers = redactAuthHeaders(e.Request.Headers)
    /\ d.Response = e.Response
    /\ d.Cache = e.Cache
    /\ d.Timings = e.Timings

\* C14: for every identifier request_i with i an index of the entries,
\* get_request_details returns the projection of entry i: the entry's time
\* and start instant, the request's method, URL, HTTP version, cookies, query
\* string, posted data and sizes, the redacted request headers, and the
\* entry's response, cache and timings.
\* Violated: the start instant is formatted to the second, so an entry that
\* started at 2.5 s is reported as started at 2 s; and an entry without a
\* request makes the call panic.
C14_DetailsAreProjection ==
    (op = "get_request_details" /\ harData # Nil /\ HasIDShape(arg)
        /\ 0 <= IntegerOfID(arg) /\ IntegerOfID(arg) < Len(Entries)) =>
        /\ reply.kind = "result"
        /\ ProjectionOf(reply.value, Entries[IntegerOfID(arg) + 1])

-----------------------------------------------------------------------------
(* Claims about the session: the archive the server holds.                 *)

IsQuery(o) == o \in {"list_urls_methods", "get_request_ids", "get_request_details"}

NoArchiveReply == ToolError(NoHARLoadedMsg, Nil)

\* C15: as long as no load has succeeded, whatever loads have failed, every
\* query fails with the no-archive error and returns no data: the server
\* holds no archive until a load answers without an error, and a query made
\* while it holds none is answered with that error and leaves it so.
C15_NoArchiveBeforeLoad ==
    [][ /\ (harData = Nil /\ harData' # Nil) =>
              (op' = "load_har" /\ reply'.kind # "error")
        /\ (harData = Nil /\ IsQuery(op')) =>
              (reply' = NoArchiveReply /\ harData' = Nil) ]_vars

\* A load has failed after both decoders ran, no archive is held, and a
\* get_request_ids has been answered with the no-archive error.
C15_Witness ==
    /\ harData = Nil
    /\ decoders = <<"strict", "tolerant">>
    /\ op = "get_request_ids"
    /\ reply = NoArchiveReply

\* C16: a load that fails, on the source or on parsing, leaves the archive of
\* the session as it was: the archive held before is held after and the
\* server goes on serving it; with none held before, none is held after.
C16_FailedLoadKeepsArchive ==
    [][ (op' = "load_har" /\ reply'.kind = "error") =>
            (harData' = harData /\ alive' = alive) ]_vars

\* A load has just failed on parsing while an archive of three entries is
\* held.
C16_Witness ==
    /\ op = "load_har"
    /\ reply.kind = "error"
    /\ reply.cause.cause.msg = ParseErrorMsg
    /\ harData # Nil
    /\ Len(Entries) = 3

\* C17: the server holds one archive, that of the most recent load that
\* succeeded: a load that answers with a count makes the archive parsed from
\* its source the one held, nothing else changes the archive held, and every
\* answer of a query is computed from the archive held when it is asked; an
\* identifier request_i asked after a reload names entry i of the archive now
\* held or is out of range.
C17_AnswersFromCurrentArchive ==
    [][ /\ (op' = "load_har" /\ reply'.kind = "result") =>
              (harData' = ParseSource(arg').har /\ reply'.value = Len(Entries'))
        /\ ~(op' = "load_har" /\ reply'.kind \in {"result", "crash"}) =>
              harData' = harData
        /\ (op' = "list_urls_methods" /\ reply'.kind = "result") =>
              reply'.value \in GetURLsAndMethods(harData').results
        /\ (op' = "get_request_ids" /\ reply'.kind = "result") =>
              reply'.value = GetRequestIDsForURLMethod(harData', arg'[1], arg'[2]).ids
        /\ (op' = "get_request_details" /\ harData # Nil /\ HasIDShape(arg')) =>
              LET n == IntegerOfID(arg')
              IN  /\ (n < 0 \/ n >= Len(Entries')) <=> reply' = OutOfRangeReply
                  /\ reply'.kind = "result" =>
                        /\ reply'.value = GetRequestDetails(harData', arg').details
                        /\ reply'.value.Request.URL = Entries'[n + 1].Request.URL
                        /\ reply'.value.Request.Method = Entries'[n + 1].Request.Method ]_vars

\* An archive has been replaced by one of a single entry, and request_1, an
\* identifier of the replaced archive, has been answered as out of range.
C17_Witness ==
    /\ superseded
    /\ op = "get_request_details"
    /\ Len(Entries) = 1
    /\ arg = <<114, 101, 113, 117, 101, 115, 116, 95, 49>>
    /\ reply = OutOfRangeReply

\* C18: no query changes the archive: after list_urls_methods,
\* get_request_ids or get_request_details the archive held, with the header
\* list that was handed to the redaction and the captured values of its
\* sensitive headers, is what it was before the query.
C18_QueriesLeaveArchive ==
    [][ IsQuery(op') => harData' = harData ]_vars

\* Details have been returned with a redacted Authorization header while the
\* archive still holds the captured value.
C18_Witness ==
    /\ op = "get_request_details"
    /\ reply.kind = "result"
    /\ \E k \in 1..Len(reply.value.Request.Headers) :
          /\ reply.value.Request.Headers[k].Name = N_Authorization
          /\ reply.value.Request.Headers[k].Value = Sentinel
          /\ Entries[Sscanf(arg).index + 1].Request.Headers[k].Value = "secret"

-----------------------------------------------------------------------------
(* Claims about redaction as a function.                                   *)

\* C19: redaction is idempotent: redacting the list a redaction returned
\* gives that list again.
C19_RedactIdempotent ==
    (fn = "redactAuthHeaders again" /\ fnRes.done) => fnRes.val = fnArg

\* A list with a redacted Authorization header and an untouched User-Agent
\* header has been redacted a second time.
C19_Witness ==
    /\ fn = "redactAuthHeaders again"
    /\ fnRes.done
    /\ fnArg = << [Name |-> N_Authorization, Value |-> Sentinel],
                  [Name |-> N_UserAgent, Value |-> "Mozilla/5.0"] >>
    /\ fnRes.val = fnArg

-----------------------------------------------------------------------------
(* Claims about extension fields.                                          *)

\* The document without browser, pages and comment on its log and without
\* _id, serverIPAddress, connection, comment and _priority on its entries.
WithoutExtensions(doc) ==
    IF doc.kind \notin {"har", "duplog"} THEN doc
    ELSE [doc EXCEPT
            !.ext = NoLogExt,
            !.entries = [i \in 1..Len(doc.entries) |->
                           IF doc.entries[i] = Nil THEN Nil
                           ELSE [doc.entries[i] EXCEPT !.ext = NoEntryExt]]]

\* The archive with the _id of every entry blanked.
WithoutIDs(har) ==
    IF har = Nil \/ har.Log = Nil THEN har
    ELSE [Log |-> [Entries |->
            [i \in 1..Len(har.Log.Entries) |->
                IF har.Log.Entries[i] = Nil THEN Nil
                ELSE [har.Log.Entries[i] EXCEPT !.ID = ""]]]]

\* C20: fields the archive has no use for (browser, pages, comment, _id,
\* serverIPAddress, connection) are accepted and ignored: a document that
\* parses without them parses with them, to the same entries.
C20_ExtensionsIgnored ==
    (fn = "Parse" /\ fnRes.done) =>
        (Parse(WithoutExtensions(fnArg)).err = Nil =>
            /\ fnRes.val.err = Nil
            /\ WithoutIDs(fnRes.val.har)
                  = WithoutIDs(Parse(WithoutExtensions(fnArg)).har))

-----------------------------------------------------------------------------
(* Claims about absent sections.                                           *)

\* Every value the document gives is of the JSON type its field takes:
\* whatever could make the tolerant decoder fail is ruled out, and absence
\* is not.
PresentValuesFit(doc) ==
    /\ doc.kind = "har"
    /\ doc.ext["comment"] # "number"
    /\ \A i \in 1..Len(doc.entries) :
          LET e == doc.entries[i]
          IN  /\ e # Nil
              /\ \A n \in EntryExtNames \ {"_priority"} : e.ext[n] # "number"
              /\ e.time.kind \in {"absent", "null", "number"}
              /\ e.request # Nil => e.request.method.kind = "string"
              /\ e.timings # Nil =>
                    \A p \in PhaseSet : e.timings[p].kind \in {"absent", "null", "number"}

\* C21: an entry without a response, a cache or timings, or with timings
\* that lack sub-fields, parses without error whichever decoder takes it: the
\* absent section is nil in the archive and an absent send, wait or receive
\* is zero.
C21_AbsentSectionsParse ==
    (fn = "Parse" /\ fnRes.done /\ PresentValuesFit(fnArg)) =>
        /\ fnRes.val.err = Nil
        /\ ~fnRes.val.panic
        /\ Len(fnRes.val.har.Log.Entries) = Len(fnArg.entries)
        /\ \A i \in 1..Len(fnArg.entries) :
              LET e == fnArg.entries[i]
                  a == fnRes.val.har.Log.Entries[i]
              IN  /\ e.response = Nil => a.Response = Nil
                  /\ e.cache = Nil => a.Cache = Nil
                  /\ e.timings = Nil => a.Timings = Nil
                  /\ e.timings # Nil =>
                        /\ a.Timings # Nil
                        /\ e.timings["send"].kind = "absent" => a.Timings.Send = 0
                        /\ e.timings["wait"].kind = "absent" => a.Timings.Wait = 0
                        /\ e.timings["receive"].kind = "absent" => a.Timings.Receive = 0

\* The tolerant decoder has taken an entry without response and cache whose
\* timings give wait only: the archive has no response, no cache, and
\* timings of 0, 50 and 0.
C21_Witness ==
    /\ fn = "Parse"
    /\ fnRes.done
    /\ fnArg = HarDoc(<<E_FloatSparse>>)
    /\ fnRes.val.ran = <<"strict", "tolerant">>
    /\ fnRes.val.err = Nil
    /\ fnRes.val.har.Log.Entries[1].Response = Nil
    /\ fnRes.val.har.Log.Entries[1].Cache = Nil
    /\ fnRes.val.har.Log.Entries[1].Timings = [Send |-> 0, Wait |-> 50, Receive |-> 0]

-----------------------------------------------------------------------------
(* Claims about the empty archive.                                         *)

\* The archive held has a log with no entries.
EmptyArchive == harData # Nil /\ harData.Log # Nil /\ Len(harData.Log.Entries) = 0

\* C22: a document with no entries loads; on its archive the list of URLs
\* and methods is empty, the IDs found for any URL and method are none, and
\* every request_i with i >= 0 is out of range; no query without an
\* identifier is answered with an error.
C22_EmptyArchive ==
    /\ (op = "load_har" /\ ~arg.failed /\ arg.scheme = "file" /\ arg.body = HarDoc(<<>>)) =>
          (reply = ToolResult(0) /\ EmptyArchive)
    /\ (EmptyArchive /\ op = "list_urls_methods") => reply = ToolResult(<<>>)
    /\ (EmptyArchive /\ op = "get_request_ids") => reply = ToolResult(<<>>)
    /\ (EmptyArchive /\ op = "get_request_details"
          /\ HasIDShape(arg) /\ IntegerOfID(arg) >= 0) => reply = OutOfRangeReply

\* request_0 has been asked of an archive without entries and answered as out
\* of range.
C22_Witness ==
    /\ EmptyArchive
    /\ op = "get_request_details"
    /\ arg = RequestID(0)
    /\ reply = OutOfRangeReply

-----------------------------------------------------------------------------
(* Claims about the conversion to the canonical model.                     *)

\* C23: ToStandardHAR is total: whenever the tolerant decoder has returned a
\* value without an error, be it with nil responses, contents or timings, null
\* entries or a nil log, the conversion returns an archive and does not panic.
C23_ConversionTotal ==
    (/\ fn = "Parse" /\ fnRes.done
     /\ fnRes.val.ran = <<"strict", "tolerant">>
     /\ TolerantDecode(fnArg).err = Nil)
    => /\ ~ToStandardHAR(TolerantDecode(fnArg).har).panic
       /\ ~fnRes.val.panic
       /\ fnRes.val.har # Nil

-----------------------------------------------------------------------------
(* Claims about source acquisition.                                        *)

\* The reply of a load that failed on getting the document: the error of
\* ParseSource is one of opening or fetching.
SourceErrorReply ==
    /\ reply.kind = "error"
    /\ reply.cause.cause.msg \in { "failed to open HAR file",
                                   "failed to fetch HAR from URL",
                                   "failed to fetch HAR: HTTP" }

\* C24: a load from an http source fails with a source error exactly when
\* the fetch fails, by I/O or by a status outside 200..299: such a load runs
\* no decoder, a 2xx status goes on to parsing the body, and a failure to
\* fetch or to open is never reported as a parse error.
C24_SourceErrorIffFetchFails ==
    /\ (op = "load_har" /\ arg.scheme = "http") =>
          LET fetchFails == arg.failed \/ arg.status \notin 200..299
          IN  /\ fetchFails <=> SourceErrorReply
              /\ fetchFails => decoders = <<>>
              /\ ~fetchFails => decoders # <<>>
    /\ (op = "load_har" /\ arg.failed) =>
          (SourceErrorReply /\ reply.cause.cause.msg # ParseErrorMsg)

-----------------------------------------------------------------------------
(* Claims about crashes.                                                   *)

\* C26: once a document has been accepted, no operation crashes: the reply of
\* the load itself, of list_urls_methods, of get_request_ids and of
\* get_request_details for any identifier is a result or an error, and the
\* server stays up, whether the document has no log, a null entry or an entry
\* without a request.
C26_NeverCrashes ==
    /\ alive
    /\ reply.kind # "crash"

-----------------------------------------------------------------------------
(* Claims that relate the queries.                                         *)

\* C27: list_urls_methods is deterministic: asked twice of the same archive
\* it returns the same groups in the same order.
C27_ListDeterministic ==
    [][ (/\ op = "list_urls_methods" /\ reply.kind = "result"
         /\ op' = "list_urls_methods" /\ reply'.kind = "result"
         /\ harData' = harData)
        => reply'.value = reply.value ]_vars

\* C28: the two index queries agree: for every group that list_urls_methods
\* returns, get_request_ids of the group's URL and method returns the
\* group's IDs in the same order, and for a URL and method without a group it
\* returns none.
C28_IndexQueriesAgree ==
    /\ (op = "list_urls_methods" /\ reply.kind = "result") =>
          \A k \in 1..Len(reply.value) :
              LET g == reply.value[k]
                  found == GetRequestIDsForURLMethod(harData, g.URL, g.Method)
              IN  ~found.panic /\ found.ids = g.RequestIDs
    /\ (op = "get_request_ids" /\ reply.kind = "result") =>
          \A result \in GetURLsAndMethods(harData).results :
              \/ \E k \in 1..Len(result) :
                    /\ result[k].URL = arg[1]
                    /\ result[k].Method = arg[2]
                    /\ result[k].RequestIDs = reply.value
              \/ /\ reply.value = <<>>
                 /\ \A k \in 1..Len(result) :
                       ~(result[k].URL = arg[1] /\ result[k].Method = arg[2])

\* get_request_details accepts the identifier on the archive held and its
\* details carry this identifier and a request of this URL and method.
RoundTrips(id, url, method) ==
    LET r == GetRequestDetails(harData, id)
    IN  /\ ~r.panic
        /\ r.details # Nil
        /\ r.details.RequestID = id
        /\ r.details.Request.URL = url
        /\ r.details.Request.Method = method

\* C29: identifiers round-trip: every ID that list_urls_methods or
\* get_request_ids returns is accepted by get_request_details on the same
\* archive, with details that carry the ID and the URL and method of the
\* group or query it came from; and the request_id of every details result is
\* the canonical request_<i> of the entry described.
C29_IdentifiersRoundTrip ==
    /\ (op = "list_urls_methods" /\ reply.kind = "result") =>
          \A k \in 1..Len(reply.value) :
              \A n \in 1..Len(reply.value[k].RequestIDs) :
                  RoundTrips(reply.value[k].RequestIDs[n],
                             reply.value[k].URL, reply.value[k].Method)
    /\ (op = "get_request_ids" /\ reply.kind = "result") =>
          \A n \in 1..Len(reply.value) : RoundTrips(reply.value[n], arg[1], arg[2])
    /\ (op = "get_request_details" /\ reply.kind = "result") =>
          reply.value.RequestID = RequestID(Sscanf(arg).index)

-----------------------------------------------------------------------------
(* Claims about concurrent calls.                                          *)

=============================================================================
